---- MODULE Spec2Model ----
(***************************************************************************)
(* Model of check_punctuation.py, the bilingual punctuation checker:      *)
(* process() = per-line punctuation and bracket checks over the body,     *)
(* the paragraph-level quote pairing engine, the reference-entry checks   *)
(* and apply_fixes().                                                      *)
(*                                                                         *)
(* A document is a sequence of characters.  A character is a token that   *)
(* stands for one code point:                                              *)
(*   "zh" a CJK ideograph      "a"  a Latin letter      "1"  a digit       *)
(*   "sp" a space              "nl" the newline                            *)
(*   ","  "."  "("  ")"        the half-width marks                        *)
(*   "fcomma" "fstop" "fl" "fr"   the full-width comma, full stop, ( and ) *)
(*   "dq" "sq"                 the straight double and single quote        *)
(*   "ldq" "rdq" "lsq" "rsq"   U+201C U+201D U+2018 U+2019                 *)
(*   "lt"                      the ideographic title bracket U+300A        *)
(*   "#"                       the configured references keyword (a one    *)
(*                             character keyword that is no letter)        *)
(* Positions, columns and offsets are 0-based as in the program; line     *)
(* numbers are 1-based.  The context and reason strings of an Issue are   *)
(* rendering text and are not part of the model.                          *)
(***************************************************************************)
EXTENDS Integers, Sequences, FiniteSets, TLC

\* ------------------------------------------------------------------------
\* bounds of the model
MaxLen == 4
\* the most characters the author part and the title part of a reference
\* entry hold together
MaxEntry == 3
\* the most characters between the two brackets of a bracketed line
MaxContent == 3

\* ------------------------------------------------------------------------
\* characters
NL == "nl"
STRAIGHT_DOUBLE == "dq"
STRAIGHT_SINGLE == "sq"
ZH_DQUOTE_OPEN == "ldq"
ZH_DQUOTE_CLOSE == "rdq"
ZH_SQUOTE_OPEN == "lsq"
ZH_SQUOTE_CLOSE == "rsq"
QUOTE_CHARS == {"dq", "sq", "ldq", "rdq", "lsq", "rsq"}
SKIP_IN_CHAR_SCAN == {"(", ")", "fl", "fr", "sq", "dq", "ldq", "rdq", "lsq", "rsq"}
UNRESOLVED == "?"

\* CJK_PATTERN, EN_PATTERN, str.isdigit, the whitespace str.strip removes
IsCJK(c) == c = "zh"
IsEN(c) == c = "a"
IsDigit(c) == c = "1"
IsSpace(c) == c = "sp"

\* ZH_TO_EN as a set of <<key, value>>; the comma stands for the marks the
\* table treats alike (colon, semicolon, question and exclamation mark).
\* The two quote entries are the ones the source text defines: the straight
\* double quote mapped to itself, and a key of several characters ("garbled",
\* which no character of a document equals) mapped to the straight single
\* quote.
ZH_TO_EN_PAIRS ==
  { <<"fcomma", ",">>, <<"fstop", ".">>, <<"fl", "(">>, <<"fr", ")">>,
    <<"dq", "dq">>, <<"garbled", "sq">> }
InZH_TO_EN(c) == \E p \in ZH_TO_EN_PAIRS : p[1] = c
ZH_TO_EN(c) == (CHOOSE p \in ZH_TO_EN_PAIRS : p[1] = c)[2]
InEN_TO_ZH(c) == \E p \in ZH_TO_EN_PAIRS : p[2] = c
EN_TO_ZH(c) == (CHOOSE p \in ZH_TO_EN_PAIRS : p[2] = c)[1]

\* ------------------------------------------------------------------------
\* sequences
Range(s) == { s[i] : i \in 1..Len(s) }

\* s[i:j] of Python for 0 <= i, with 0-based bounds
Slice(s, i, j) == IF j > Len(s) THEN SubSeq(s, i + 1, Len(s)) ELSE SubSeq(s, i + 1, j)

\* str.split('\n')
Split(s) ==
  LET RECURSIVE F(_, _, _)
      F(i, line, acc) ==
        IF i > Len(s) THEN Append(acc, line)
        ELSE IF s[i] = NL THEN F(i + 1, <<>>, Append(acc, line))
        ELSE F(i + 1, Append(line, s[i]), acc)
  IN F(1, <<>>, <<>>)

\* '\n'.join(lines)
Join(lines) ==
  LET RECURSIVE F(_, _)
      F(i, acc) ==
        IF i > Len(lines) THEN acc
        ELSE F(i + 1, (IF i = 1 THEN acc ELSE Append(acc, NL)) \o lines[i])
  IN F(1, <<>>)

\* str.strip()
Strip(s) ==
  LET nonsp == { i \in 1..Len(s) : ~IsSpace(s[i]) }
      lo == CHOOSE i \in nonsp : \A j \in nonsp : i <= j
      hi == CHOOSE i \in nonsp : \A j \in nonsp : i >= j
  IN IF nonsp = {} THEN <<>> ELSE SubSeq(s, lo, hi)

\* len(CJK_PATTERN.findall(text)), len(EN_PATTERN.findall(text))
CountCJK(s) == Cardinality({ i \in 1..Len(s) : IsCJK(s[i]) })
CountEN(s) == Cardinality({ i \in 1..Len(s) : IsEN(s[i]) })

\* ------------------------------------------------------------------------
\* language of a span
\* zh_ratio(text) >= 0.5, the ratio being zh / (zh + en) and 0.0 when the
\* span has neither
zh_ratio_ge_half(s) ==
  LET zh == CountCJK(s)
      en == CountEN(s)
  IN IF zh + en > 0 THEN 2 * zh >= zh + en ELSE FALSE

dominant_lang(s) == IF zh_ratio_ge_half(s) THEN "zh" ELSE "en"

\* ------------------------------------------------------------------------
\* issues
Issue(line_no, col_no, ch, suggestion, section, is_warning) ==
  [line_no |-> line_no, col_no |-> col_no, char |-> ch,
   suggestion |-> suggestion, section |-> section, is_warning |-> is_warning]

\* mutant: a period after a digit is flagged like any other
check_period_letters_only(pos, line_no, line, expected_lang, section) ==
  IF expected_lang # "zh" THEN <<>>
  ELSE IF pos > 0 /\ IsEN(line[pos]) THEN <<>>
  ELSE << Issue(line_no, pos, ".", "fstop", section, FALSE) >>

\* _check_period: the list holds the Issue, or is empty for None
check_period(pos, line_no, line, expected_lang, section) ==
  IF expected_lang # "zh" THEN <<>>
  ELSE IF pos > 0 /\ IsDigit(line[pos]) THEN <<>>
  ELSE IF pos > 0 /\ IsEN(line[pos]) THEN <<>>
  ELSE << Issue(line_no, pos, ".", "fstop", section, FALSE) >>

check_single_punct_for_lang(ch, pos, line_no, line, expected_lang, section) ==
  IF expected_lang = "zh"
  THEN IF InEN_TO_ZH(ch)
       THEN IF ch = "."
            THEN check_period(pos, line_no, line, "zh", section)
            ELSE << Issue(line_no, pos, ch, EN_TO_ZH(ch), section, FALSE) >>
       ELSE <<>>
  ELSE IF InZH_TO_EN(ch)
       THEN << Issue(line_no, pos, ch, ZH_TO_EN(ch), section, FALSE) >>
       ELSE <<>>

\* the character scan shared by check_body_line and check_ref_entry
char_scan(line, line_no, lang, section) ==
  LET RECURSIVE F(_, _)
      F(i, acc) ==
        IF i >= Len(line) THEN acc
        ELSE IF line[i + 1] \in SKIP_IN_CHAR_SCAN THEN F(i + 1, acc)
        ELSE F(i + 1, acc \o check_single_punct_for_lang(line[i + 1], i, line_no,
                                                         line, lang, section))
  IN F(0, <<>>)

\* ------------------------------------------------------------------------
\* brackets
IsOpenBracket(c) == c \in {"(", "fl"}
IsCloseBracket(c) == c \in {")", "fr"}

BracketPair(open_pos, close_pos, content, open_ch, close_ch) ==
  [open_pos |-> open_pos, close_pos |-> close_pos, content |-> content,
   open_ch |-> open_ch, close_ch |-> close_ch]

\* mutant: a closer takes the oldest pending opener
find_bracket_pairs_oldest_first(line) ==
  LET RECURSIVE F(_, _, _)
      F(i, stack, pairs) ==
        IF i >= Len(line) THEN pairs
        ELSE IF IsOpenBracket(line[i + 1]) THEN F(i + 1, Append(stack, i), pairs)
        ELSE IF IsCloseBracket(line[i + 1]) /\ stack # <<>>
             THEN F(i + 1, Tail(stack),
                    Append(pairs, BracketPair(Head(stack), i, Slice(line, Head(stack) + 1, i),
                                              line[Head(stack) + 1], line[i + 1])))
        ELSE F(i + 1, stack, pairs)
  IN F(0, <<>>, <<>>)

\* find_bracket_pairs: the stack holds the positions of the pending openers
find_bracket_pairs(line) ==
  LET RECURSIVE F(_, _, _)
      F(i, stack, pairs) ==
        IF i >= Len(line) THEN pairs
        ELSE IF IsOpenBracket(line[i + 1]) THEN F(i + 1, Append(stack, i), pairs)
        ELSE IF IsCloseBracket(line[i + 1]) /\ stack # <<>>
             THEN LET open_pos == stack[Len(stack)]
                  IN F(i + 1, SubSeq(stack, 1, Len(stack) - 1),
                       Append(pairs, BracketPair(open_pos, i, Slice(line, open_pos + 1, i),
                                                 line[open_pos + 1], line[i + 1])))
        ELSE F(i + 1, stack, pairs)
  IN F(0, <<>>, <<>>)

\* re.match(r'^\d{4}$', content_stripped)
YearDigits == 4
IsYear(s) == Len(s) = YearDigits /\ \A i \in 1..Len(s) : IsDigit(s[i])

\* mutant: a year is decided by its content like any other content
should_be_half_content_only(content, line) ==
  LET content_stripped == Strip(content)
      last == content_stripped[Len(content_stripped)]
  IN IF content_stripped # <<>>
     THEN IsEN(content_stripped[1]) /\ (IsEN(last) \/ last = "." \/ IsDigit(last))
     ELSE FALSE

\* mutant: a digit or a period at the start counts like a Latin letter
should_be_half_any_start(content, line) ==
  LET content_stripped == Strip(content)
      first == content_stripped[1]
      last == content_stripped[Len(content_stripped)]
      by_content ==
        IF content_stripped # <<>>
        THEN /\ (IsEN(first) \/ first = "." \/ IsDigit(first))
             /\ (IsEN(last) \/ last = "." \/ IsDigit(last))
        ELSE FALSE
  IN IF IsYear(content_stripped) THEN dominant_lang(line) = "en" ELSE by_content

\* the decision of check_brackets for one pair
should_be_half(content, line) ==
  LET content_stripped == Strip(content)
      last == content_stripped[Len(content_stripped)]
      by_content ==
        IF content_stripped # <<>>
        THEN IsEN(content_stripped[1]) /\ (IsEN(last) \/ last = "." \/ IsDigit(last))
        ELSE FALSE
  IN IF IsYear(content_stripped) THEN dominant_lang(line) = "en" ELSE by_content

check_brackets(line, line_no, section) ==
  LET pairs == find_bracket_pairs(line)
      RECURSIVE F(_, _)
      F(k, acc) ==
        IF k > Len(pairs) THEN acc
        ELSE LET p == pairs[k]
                 half == should_be_half(p.content, line)
                 expected_open == IF half THEN "(" ELSE "fl"
                 expected_close == IF half THEN ")" ELSE "fr"
                 o == IF p.open_ch # expected_open
                      THEN << Issue(line_no, p.open_pos, p.open_ch, expected_open,
                                    section, FALSE) >>
                      ELSE <<>>
                 c == IF p.close_ch # expected_close
                      THEN << Issue(line_no, p.close_pos, p.close_ch, expected_close,
                                    section, FALSE) >>
                      ELSE <<>>
             IN F(k + 1, acc \o o \o c)
  IN F(1, <<>>)

\* ------------------------------------------------------------------------
\* body lines
check_body_line(line, line_no) ==
  char_scan(line, line_no, dominant_lang(line), "body")
    \o check_brackets(line, line_no, "body")

\* ------------------------------------------------------------------------
\* reference entries
\* detect_ref_author_lang: "none" stands for None
detect_ref_author_lang(entry) ==
  LET stripped == Strip(entry)
  IN IF stripped = <<>> THEN "none"
     ELSE IF IsCJK(stripped[1]) THEN "zh"
     ELSE IF IsEN(stripped[1]) THEN "en"
     ELSE "none"

\* re.search(r'\(?\d{4}\)?\.\s*(.+)', entry).  YearStarts: the positions
\* (1-based) of a run of four digits that is followed by a period, or by ")"
\* and a period, with at least one character after the period.  The optional
\* "(" never decides whether there is a match.
YearStarts(entry) ==
  { d \in 1..Len(entry) :
      /\ d + YearDigits - 1 <= Len(entry)
      /\ \A j \in d..(d + YearDigits - 1) : IsDigit(entry[j])
      /\ \E dot \in {d + YearDigits, d + YearDigits + 1} :
           /\ dot < Len(entry)
           /\ entry[dot] = "."
           /\ dot = d + YearDigits + 1 => entry[d + YearDigits] = ")" }

\* group 1 of the leftmost match: \s* is greedy but leaves (.+) a character
YearTitleRegion(entry) ==
  LET d0 == CHOOSE d \in YearStarts(entry) : \A e \in YearStarts(entry) : d <= e
      dot0 == IF entry[d0 + YearDigits] = "." THEN d0 + YearDigits ELSE d0 + YearDigits + 1
      RECURSIVE Skip(_)
      Skip(k) == IF k < Len(entry) /\ IsSpace(entry[k]) THEN Skip(k + 1) ELSE k
  IN SubSeq(entry, Skip(dot0 + 1), Len(entry))

HasYearMatch(entry) == YearStarts(entry) # {}

detect_work_title_lang(entry) ==
  IF "lt" \in Range(entry) THEN "zh"
  ELSE IF HasYearMatch(entry) THEN dominant_lang(YearTitleRegion(entry))
  ELSE "none"

\* mutant: an entry whose scripts disagree is scanned all the same
check_ref_entry_scan_anyway(entry, line_no) ==
  LET author_lang == detect_ref_author_lang(entry)
      title_lang == detect_work_title_lang(entry)
      expected_lang == IF author_lang # "none" THEN author_lang ELSE "en"
  IN IF author_lang # "none" /\ title_lang # "none" /\ author_lang # title_lang
     THEN << Issue(line_no, 0, "?", "?", "refs", TRUE) >>
            \o char_scan(entry, line_no, expected_lang, "refs")
     ELSE char_scan(entry, line_no, expected_lang, "refs")

check_ref_entry(entry, line_no) ==
  LET author_lang == detect_ref_author_lang(entry)
      title_lang == detect_work_title_lang(entry)
      expected_lang == IF author_lang # "none" THEN author_lang ELSE "en"
  IN IF author_lang # "none" /\ title_lang # "none" /\ author_lang # title_lang
     THEN << Issue(line_no, 0, "?", "?", "refs", TRUE) >>
     ELSE char_scan(entry, line_no, expected_lang, "refs")

\* ------------------------------------------------------------------------
\* body and references
REFS_KEYWORD == "#"

\* split_body_refs: the index (1-based) of the first line holding the
\* keyword, 0 when no line holds it
RefsHeading(lines) ==
  LET hits == { i \in 1..Len(lines) : REFS_KEYWORD \in Range(lines[i]) }
  IN IF hits = {} THEN 0 ELSE CHOOSE i \in hits : \A j \in hits : i <= j

\* mutant: the reference lines stay in the body
body_lines_whole(lines) == lines

body_lines_of(lines) ==
  IF RefsHeading(lines) = 0 THEN lines ELSE SubSeq(lines, 1, RefsHeading(lines))

ref_lines_of(lines) ==
  IF RefsHeading(lines) = 0 THEN <<>>
  ELSE SubSeq(lines, RefsHeading(lines) + 1, Len(lines))

ref_start_of(lines) == IF RefsHeading(lines) = 0 THEN -1 ELSE RefsHeading(lines) + 1

\* ------------------------------------------------------------------------
\* quote pairing engine
QuotePair(open_pos, close_pos, open_char, close_char, content, sentence_lang, in_brackets) ==
  [open_pos |-> open_pos, close_pos |-> close_pos, open_char |-> open_char,
   close_char |-> close_char, content |-> content,
   sentence_lang |-> sentence_lang, in_brackets |-> in_brackets]

\* _pos_to_lineno_from_text
pos_to_lineno_from_text(full_text, pos) ==
  Cardinality({ i \in 1..pos : full_text[i] = NL }) + 1

UnpairedQuote(pos, ch, is_open, line_no) ==
  [pos |-> pos, char |-> ch, is_open |-> is_open, line_no |-> line_no]

\* _warn: the unpaired list with one more report
warn(unpaired, full_text, pos, ch, is_open) ==
  Append(unpaired, UnpairedQuote(pos, ch, is_open, pos_to_lineno_from_text(full_text, pos)))

\* text.rfind('\n', 0, pos) + 1
ParagraphStart(full_text, pos) ==
  LET nls == { i \in 1..pos : full_text[i] = NL }
  IN IF nls = {} THEN 0 ELSE CHOOSE i \in nls : \A j \in nls : i >= j

\* _bracket_depth_at
bracket_depth_at(full_text, pos) ==
  LET RECURSIVE F(_, _)
      F(i, depth) ==
        IF i >= pos THEN depth
        ELSE IF IsOpenBracket(full_text[i + 1]) THEN F(i + 1, depth + 1)
        ELSE IF IsCloseBracket(full_text[i + 1])
             THEN F(i + 1, IF depth > 0 THEN depth - 1 ELSE 0)
        ELSE F(i + 1, depth)
  IN F(ParagraphStart(full_text, pos), 0)

\* zh_slot: None, the placeholder '^', or a real opener (pos, char)
SlotNone == [tag |-> "None", pos |-> 0, ch |-> ""]
SlotPlaceholder == [tag |-> "^", pos |-> 0, ch |-> ""]
SlotReal(pos, ch) == [tag |-> "real", pos |-> pos, ch |-> ch]

Glyph(pos, ch) == [pos |-> pos, ch |-> ch]

\* _new_stackb
new_stackb == [zh_slot |-> SlotNone, en_stack |-> <<>>]

\* the state of _process_queue and the two result lists
EngineState(cur, meta_stack, pairs, unpaired) ==
  [cur |-> cur, meta_stack |-> meta_stack, pairs |-> pairs, unpaired |-> unpaired]

\* sentence_lang of a new pair: the language of the content, or the given
\* default when the content is blank
sentence_lang_of(content, default) ==
  IF Strip(content) # <<>> THEN dominant_lang(content) ELSE default

\* mutant: two glyphs of different kinds count as the same kind
same_type_any(c0, c1) == TRUE

\* mutant: the single-style case forgotten
same_type_double_only(c0, c1) == c0 = STRAIGHT_DOUBLE /\ c1 = STRAIGHT_DOUBLE

\* mutant: the double-style case forgotten
same_type_single_only(c0, c1) == c0 = STRAIGHT_SINGLE /\ c1 = STRAIGHT_SINGLE

same_type(c0, c1) ==
  \/ (c0 = STRAIGHT_DOUBLE /\ c1 = STRAIGHT_DOUBLE)
  \/ (c0 = STRAIGHT_SINGLE /\ c1 = STRAIGHT_SINGLE)

\* mutant: the glyph that arrives at a full buffer closes the older buffered
\* glyph, over the newer one
try_pair_en_over_newer(st, new_pos, new_ch, full_text) ==
  LET en == st.cur.en_stack
  IN IF Len(en) = 2
     THEN LET old0 == en[1]
              old1 == en[2]
              content == Slice(full_text, old0.pos + 1, new_pos)
              in_brk == bracket_depth_at(full_text, old0.pos) > 0
          IN [st EXCEPT !.pairs = Append(@, QuotePair(old0.pos, new_pos, old0.ch, new_ch,
                                                       content, sentence_lang_of(content, "zh"),
                                                       in_brk)),
                        !.cur.en_stack = << old1 >>]
     ELSE LET en2 == Append(en, Glyph(new_pos, new_ch))
          IN IF Len(en2) = 2 /\ same_type(en2[1].ch, en2[2].ch)
             THEN LET p0 == en2[1]
                      p1 == en2[2]
                      content == Slice(full_text, p0.pos + 1, p1.pos)
                      in_brk == bracket_depth_at(full_text, p0.pos) > 0
                  IN [st EXCEPT !.pairs = Append(@, QuotePair(p0.pos, p1.pos, p0.ch, p1.ch,
                                                               content,
                                                               sentence_lang_of(content, "en"),
                                                               in_brk)),
                                !.cur.en_stack = <<>>]
             ELSE [st EXCEPT !.cur.en_stack = en2]

\* mutant: the glyph that displaces a full buffer is not kept
try_pair_en_buffer_lost(st, new_pos, new_ch, full_text) ==
  LET en == st.cur.en_stack
  IN IF Len(en) = 2
     THEN LET old0 == en[1]
              old1 == en[2]
              content == Slice(full_text, old0.pos + 1, old1.pos)
              in_brk == bracket_depth_at(full_text, old0.pos) > 0
          IN [st EXCEPT !.pairs = Append(@, QuotePair(old0.pos, old1.pos, old0.ch, old1.ch,
                                                       content, sentence_lang_of(content, "zh"),
                                                       in_brk)),
                        !.cur.en_stack = <<>>]
     ELSE LET en2 == Append(en, Glyph(new_pos, new_ch))
          IN IF Len(en2) = 2 /\ same_type(en2[1].ch, en2[2].ch)
             THEN LET p0 == en2[1]
                      p1 == en2[2]
                      content == Slice(full_text, p0.pos + 1, p1.pos)
                      in_brk == bracket_depth_at(full_text, p0.pos) > 0
                  IN [st EXCEPT !.pairs = Append(@, QuotePair(p0.pos, p1.pos, p0.ch, p1.ch,
                                                               content,
                                                               sentence_lang_of(content, "en"),
                                                               in_brk)),
                                !.cur.en_stack = <<>>]
             ELSE [st EXCEPT !.cur.en_stack = en2]

\* _try_pair_en
try_pair_en(st, new_pos, new_ch, full_text) ==
  LET en == st.cur.en_stack
  IN IF Len(en) = 2
     THEN LET old0 == en[1]
              old1 == en[2]
              content == Slice(full_text, old0.pos + 1, old1.pos)
              in_brk == bracket_depth_at(full_text, old0.pos) > 0
          IN [st EXCEPT !.pairs = Append(@, QuotePair(old0.pos, old1.pos, old0.ch, old1.ch,
                                                       content, sentence_lang_of(content, "zh"),
                                                       in_brk)),
                        !.cur.en_stack = << Glyph(new_pos, new_ch) >>]
     ELSE LET en2 == Append(en, Glyph(new_pos, new_ch))
          IN IF Len(en2) = 2 /\ same_type(en2[1].ch, en2[2].ch)
             THEN LET p0 == en2[1]
                      p1 == en2[2]
                      content == Slice(full_text, p0.pos + 1, p1.pos)
                      in_brk == bracket_depth_at(full_text, p0.pos) > 0
                  IN [st EXCEPT !.pairs = Append(@, QuotePair(p0.pos, p1.pos, p0.ch, p1.ch,
                                                               content,
                                                               sentence_lang_of(content, "en"),
                                                               in_brk)),
                                !.cur.en_stack = <<>>]
             ELSE [st EXCEPT !.cur.en_stack = en2]

\* mutant: the new frame is left without its opener
push_meta_slot_unset(st, abs_pos, ch) ==
  [st EXCEPT !.meta_stack = Append(@, st.cur),
             !.cur = new_stackb]

\* _push_meta, then the new frame takes the opener
push_meta(st, abs_pos, ch) ==
  [st EXCEPT !.meta_stack = Append(@, st.cur),
             !.cur = [zh_slot |-> SlotReal(abs_pos, ch), en_stack |-> <<>>]]

\* mutant: the suspended frame is not restored
pop_meta_fresh(st) == [st EXCEPT !.cur = new_stackb]

\* _pop_meta
pop_meta(st) ==
  IF st.meta_stack # <<>>
  THEN [st EXCEPT !.cur = st.meta_stack[Len(st.meta_stack)],
                  !.meta_stack = SubSeq(@, 1, Len(@) - 1)]
  ELSE [st EXCEPT !.cur = new_stackb]

\* mutant: only the newest glyph of a buffer is reported
warn_all_newest_only(unpaired, full_text, en_stack) ==
  IF en_stack = <<>> THEN unpaired
  ELSE warn(unpaired, full_text, en_stack[Len(en_stack)].pos, en_stack[Len(en_stack)].ch, TRUE)

\* the report of every glyph of a buffer as unclosed
warn_all(unpaired, full_text, en_stack) ==
  LET RECURSIVE F(_, _)
      F(k, acc) ==
        IF k > Len(en_stack) THEN acc
        ELSE F(k + 1, warn(acc, full_text, en_stack[k].pos, en_stack[k].ch, TRUE))
  IN F(1, unpaired)

\* mutant: a closer of the other kind is reported alone, its opener is not
close_level_opener_dropped(st, abs_pos, ch, full_text) ==
  LET zh == st.cur.zh_slot
      in_brk == bracket_depth_at(full_text, abs_pos) > 0
      expected_close == IF zh.ch = ZH_DQUOTE_OPEN THEN ZH_DQUOTE_CLOSE ELSE ZH_SQUOTE_CLOSE
      content == Slice(full_text, zh.pos + 1, abs_pos)
      after ==
        IF zh.tag = "^" \/ ch # expected_close
        THEN [st EXCEPT !.unpaired = warn(@, full_text, abs_pos, ch, FALSE)]
        ELSE [st EXCEPT !.pairs = Append(@, QuotePair(zh.pos, abs_pos, zh.ch, ch, content,
                                                       sentence_lang_of(content, "zh"),
                                                       in_brk))]
  IN pop_meta(after)

\* mutant: a closer of the other kind leaves the level open
close_level_mismatch_stays(st, abs_pos, ch, full_text) ==
  LET zh == st.cur.zh_slot
      in_brk == bracket_depth_at(full_text, abs_pos) > 0
      expected_close == IF zh.ch = ZH_DQUOTE_OPEN THEN ZH_DQUOTE_CLOSE ELSE ZH_SQUOTE_CLOSE
      content == Slice(full_text, zh.pos + 1, abs_pos)
  IN IF zh.tag = "^"
     THEN pop_meta([st EXCEPT !.unpaired = warn(@, full_text, abs_pos, ch, FALSE)])
     ELSE IF ch # expected_close
     THEN [st EXCEPT !.unpaired = warn(warn(@, full_text, abs_pos, ch, FALSE),
                                       full_text, zh.pos, zh.ch, TRUE)]
     ELSE pop_meta([st EXCEPT !.pairs = Append(@, QuotePair(zh.pos, abs_pos, zh.ch, ch, content,
                                                            sentence_lang_of(content, "zh"),
                                                            in_brk))])

\* mutant: a closer that meets a placeholder is dropped without a report
close_level_silent(st, abs_pos, ch, full_text) ==
  LET zh == st.cur.zh_slot
      in_brk == bracket_depth_at(full_text, abs_pos) > 0
      expected_close == IF zh.ch = ZH_DQUOTE_OPEN THEN ZH_DQUOTE_CLOSE ELSE ZH_SQUOTE_CLOSE
      content == Slice(full_text, zh.pos + 1, abs_pos)
      after ==
        IF zh.tag = "^" THEN st
        ELSE IF ch # expected_close
        THEN [st EXCEPT !.unpaired = warn(warn(@, full_text, abs_pos, ch, FALSE),
                                          full_text, zh.pos, zh.ch, TRUE)]
        ELSE [st EXCEPT !.pairs = Append(@, QuotePair(zh.pos, abs_pos, zh.ch, ch, content,
                                                       sentence_lang_of(content, "zh"),
                                                       in_brk))]
  IN pop_meta(after)

\* a distinct-role closer arriving at a frame with an empty buffer
close_level(st, abs_pos, ch, full_text) ==
  LET zh == st.cur.zh_slot
      in_brk == bracket_depth_at(full_text, abs_pos) > 0
      expected_close == IF zh.ch = ZH_DQUOTE_OPEN THEN ZH_DQUOTE_CLOSE ELSE ZH_SQUOTE_CLOSE
      content == Slice(full_text, zh.pos + 1, abs_pos)
      after ==
        IF zh.tag = "^"
        THEN [st EXCEPT !.unpaired = warn(@, full_text, abs_pos, ch, FALSE)]
        ELSE IF ch # expected_close
        THEN [st EXCEPT !.unpaired = warn(warn(@, full_text, abs_pos, ch, FALSE),
                                          full_text, zh.pos, zh.ch, TRUE)]
        ELSE [st EXCEPT !.pairs = Append(@, QuotePair(zh.pos, abs_pos, zh.ch, ch, content,
                                                       sentence_lang_of(content, "zh"),
                                                       in_brk))]
  IN pop_meta(after)

\* one iteration of the loop of _process_queue over the glyph (abs_pos, ch)
process_glyph(st, abs_pos, ch, full_text) ==
  LET is_known_open == ch \in {ZH_DQUOTE_OPEN, ZH_SQUOTE_OPEN}
      is_known_close == ch \in {ZH_DQUOTE_CLOSE, ZH_SQUOTE_CLOSE}
      is_straight == ch \in {STRAIGHT_DOUBLE, STRAIGHT_SINGLE}
      \* a distinct-role glyph pre-empts the buffered glyphs
      st1 == IF st.cur.en_stack # <<>> /\ (is_known_open \/ is_known_close)
             THEN [st EXCEPT !.unpaired = warn_all(@, full_text, st.cur.en_stack),
                             !.cur.en_stack = <<>>]
             ELSE st
  IN IF st.cur.zh_slot.tag = "None"
     THEN IF is_known_open
          THEN [st EXCEPT !.cur.zh_slot = SlotReal(abs_pos, ch)]
          ELSE IF is_straight
          THEN try_pair_en([st EXCEPT !.cur.zh_slot = SlotPlaceholder], abs_pos, ch, full_text)
          ELSE IF is_known_close
          THEN [st EXCEPT !.unpaired = warn(@, full_text, abs_pos, ch, FALSE)]
          ELSE st
     ELSE IF st1.cur.en_stack = <<>>
          THEN IF is_straight THEN try_pair_en(st1, abs_pos, ch, full_text)
               ELSE IF is_known_open THEN push_meta(st1, abs_pos, ch)
               ELSE IF is_known_close THEN close_level(st1, abs_pos, ch, full_text)
               ELSE st1
          ELSE IF is_straight THEN try_pair_en(st1, abs_pos, ch, full_text)
               ELSE st1

\* mutant: the pending opener of a frame is not reported
warn_frame_buffer_only(unpaired, full_text, frame) ==
  warn_all(unpaired, full_text, frame.en_stack)

\* the cleanup of _process_queue at the end of the paragraph
warn_frame(unpaired, full_text, frame) ==
  LET u1 == warn_all(unpaired, full_text, frame.en_stack)
  IN IF frame.zh_slot.tag = "real"
     THEN warn(u1, full_text, frame.zh_slot.pos, frame.zh_slot.ch, TRUE)
     ELSE u1

\* mutant: the suspended frames are not gone through
paragraph_end_active_only(st, full_text) ==
  [st EXCEPT !.unpaired = warn_frame(@, full_text, st.cur)]

paragraph_end(st, full_text) ==
  LET RECURSIVE F(_, _)
      F(k, acc) ==
        IF k < 1 THEN acc
        ELSE F(k - 1, warn_frame(acc, full_text, st.meta_stack[k]))
  IN [st EXCEPT !.unpaired = F(Len(st.meta_stack), warn_frame(@, full_text, st.cur))]

\* the queue of a paragraph: its quote glyphs with their absolute offsets
queue_of(para, abs_offset) ==
  LET RECURSIVE F(_, _)
      F(rel_pos, acc) ==
        IF rel_pos >= Len(para) THEN acc
        ELSE IF para[rel_pos + 1] \in QUOTE_CHARS
             THEN F(rel_pos + 1, Append(acc, Glyph(abs_offset + rel_pos, para[rel_pos + 1])))
        ELSE F(rel_pos + 1, acc)
  IN F(0, <<>>)

\* _process_queue on a whole queue
process_queue(st, queue, full_text) ==
  LET RECURSIVE F(_, _)
      F(k, acc) ==
        IF k > Len(queue) THEN acc
        ELSE F(k + 1, process_glyph(acc, queue[k].pos, queue[k].ch, full_text))
      ended == paragraph_end(F(1, [st EXCEPT !.cur = new_stackb, !.meta_stack = <<>>]),
                             full_text)
  IN [ended EXCEPT !.cur = new_stackb, !.meta_stack = <<>>]

\* mutant: the body taken as one paragraph
paragraphs_unsplit(full_text) == << full_text >>

\* full_text.split('\n') in pair_quotes_by_paragraph
paragraphs_of(full_text) == Split(full_text)

\* pair_quotes_by_paragraph: the record holds pairs and unpaired
pair_quotes_by_paragraph(full_text) ==
  LET paragraphs == paragraphs_of(full_text)
      RECURSIVE F(_, _, _)
      F(k, abs_offset, st) ==
        IF k > Len(paragraphs) THEN st
        ELSE LET queue == queue_of(paragraphs[k], abs_offset)
             IN F(k + 1, abs_offset + Len(paragraphs[k]) + 1,
                  IF queue # <<>> THEN process_queue(st, queue, full_text) ELSE st)
  IN F(1, 0, EngineState(new_stackb, <<>>, <<>>, <<>>))

\* ------------------------------------------------------------------------
\* canonical form and quote issues
\* mutant: the context-driven strategy ignores the inside-bracket flag
decide_ignoring_brackets(pair, strat) ==
  LET lang == IF strat = "A" \/ Strip(pair.content) = <<>>
              THEN pair.sentence_lang
              ELSE dominant_lang(pair.content)
  IN IF lang = "zh" THEN << ZH_DQUOTE_OPEN, ZH_DQUOTE_CLOSE >>
     ELSE << STRAIGHT_DOUBLE, STRAIGHT_DOUBLE >>

\* decide_correct_quote_form: <<open, close>>
decide_correct_quote_form(pair, strat) ==
  IF strat = "A"
  THEN IF pair.in_brackets THEN << STRAIGHT_DOUBLE, STRAIGHT_DOUBLE >>
       ELSE IF pair.sentence_lang = "zh" THEN << ZH_DQUOTE_OPEN, ZH_DQUOTE_CLOSE >>
       ELSE << STRAIGHT_DOUBLE, STRAIGHT_DOUBLE >>
  ELSE LET content_lang == IF Strip(pair.content) # <<>>
                           THEN dominant_lang(pair.content)
                           ELSE pair.sentence_lang
       IN IF content_lang = "zh" THEN << ZH_DQUOTE_OPEN, ZH_DQUOTE_CLOSE >>
          ELSE << STRAIGHT_DOUBLE, STRAIGHT_DOUBLE >>

Replacement(abs_pos, correct_char, line_no, original_char) ==
  [abs_pos |-> abs_pos, correct_char |-> correct_char, line_no |-> line_no,
   original_char |-> original_char]

\* mutant: a side is reported whether or not it has the canonical glyph
side_issue_unconditional(full_text, pos, ch, expected) ==
  << Issue(pos_to_lineno_from_text(full_text, pos), pos, ch, expected, "body", FALSE) >>

\* the Issue of one side of a pair: its column is the absolute offset
side_issue(full_text, pos, ch, expected) ==
  IF ch # expected
  THEN << Issue(pos_to_lineno_from_text(full_text, pos), pos, ch, expected, "body", FALSE) >>
  ELSE <<>>

side_replacement(full_text, pos, ch, expected) ==
  IF ch # expected
  THEN << Replacement(pos, expected, pos_to_lineno_from_text(full_text, pos), ch) >>
  ELSE <<>>

\* check_quotes after the pairing: the record holds issues and replacements
quote_findings(pairs, unpaired, full_text, strat) ==
  LET RECURSIVE P(_, _, _)
      P(k, iss, rep) ==
        IF k > Len(pairs) THEN [issues |-> iss, replacements |-> rep]
        ELSE LET pair == pairs[k]
                 expected == decide_correct_quote_form(pair, strat)
             IN P(k + 1,
                  iss \o side_issue(full_text, pair.open_pos, pair.open_char, expected[1])
                      \o side_issue(full_text, pair.close_pos, pair.close_char, expected[2]),
                  rep \o side_replacement(full_text, pair.open_pos, pair.open_char, expected[1])
                      \o side_replacement(full_text, pair.close_pos, pair.close_char,
                                          expected[2]))
      RECURSIVE U(_, _)
      U(k, iss) ==
        IF k > Len(unpaired) THEN iss
        ELSE U(k + 1, Append(iss, Issue(unpaired[k].line_no, unpaired[k].pos, unpaired[k].char,
                                        UNRESOLVED, "body", TRUE)))
      paired == P(1, <<>>, <<>>)
  IN [issues |-> U(1, paired.issues), replacements |-> paired.replacements]

check_quotes(full_text, strat) ==
  LET r == pair_quotes_by_paragraph(full_text)
  IN quote_findings(r.pairs, r.unpaired, full_text, strat)

\* ------------------------------------------------------------------------
\* fixes
\* the first pass of apply_fixes: the replacements in descending order of
\* offset (a stable sort: equal offsets keep the order of the list)
apply_quote_replacements(t, quote_replacements) ==
  LET RECURSIVE AtPos(_, _, _)
      AtPos(p, k, acc) ==
        IF k > Len(quote_replacements) THEN acc
        ELSE LET r == quote_replacements[k]
             IN IF r.abs_pos = p /\ acc[p + 1] = r.original_char
                THEN AtPos(p, k + 1, [acc EXCEPT ![p + 1] = r.correct_char])
                ELSE AtPos(p, k + 1, acc)
      RECURSIVE Down(_, _)
      Down(p, acc) == IF p < 0 THEN acc ELSE Down(p - 1, AtPos(p, 1, acc))
  IN Down(Len(t) - 1, t)

\* mutant: warnings and unresolved suggestions are not skipped
line_fixable_with_warnings(issue) ==
  ~(issue.char \in QUOTE_CHARS /\ issue.suggestion \in QUOTE_CHARS)

\* the Issues the second pass of apply_fixes keeps
line_fixable(issue) ==
  /\ ~issue.is_warning
  /\ issue.suggestion # UNRESOLVED
  /\ ~(issue.char \in QUOTE_CHARS /\ issue.suggestion \in QUOTE_CHARS)

\* the second pass on one line: the kept Issues of the line in descending
\* order of column (stable)
apply_line_issues(line, line_no, issues) ==
  LET RECURSIVE AtCol(_, _, _)
      AtCol(c, k, acc) ==
        IF k > Len(issues) THEN acc
        ELSE LET issue == issues[k]
             IN IF /\ line_fixable(issue)
                   /\ issue.line_no = line_no
                   /\ issue.col_no = c
                   /\ acc[c + 1] = issue.char
                THEN AtCol(c, k + 1, [acc EXCEPT ![c + 1] = issue.suggestion])
                ELSE AtCol(c, k + 1, acc)
      RECURSIVE Down(_, _)
      Down(c, acc) == IF c < 0 THEN acc ELSE Down(c - 1, AtCol(c, 1, acc))
  IN Down(Len(line) - 1, line)

\* mutant: the quote replacements are not applied
apply_fixes_lines_only(t, issues, quote_replacements) ==
  LET lines == Split(t)
  IN Join([ i \in 1..Len(lines) |-> apply_line_issues(lines[i], i, issues) ])

apply_fixes(t, issues, quote_replacements) ==
  LET lines == Split(apply_quote_replacements(t, quote_replacements))
  IN Join([ i \in 1..Len(lines) |-> apply_line_issues(lines[i], i, issues) ])

\* ------------------------------------------------------------------------
\* process() as a function of the document and the quote strategy
body_issues(body_lines) ==
  LET RECURSIVE F(_, _)
      F(i, acc) ==
        IF i > Len(body_lines) THEN acc
        ELSE F(i + 1, acc \o check_body_line(body_lines[i], i))
  IN F(1, <<>>)

\* mutant: the reference lines are gone through from the last to the first
ref_issues_last_first(ref_lines, ref_start) ==
  LET RECURSIVE F(_, _)
      F(k, acc) ==
        IF k < 1 THEN acc
        ELSE IF Strip(ref_lines[k]) # <<>>
             THEN F(k - 1, acc \o check_ref_entry(ref_lines[k], ref_start + k - 1))
        ELSE F(k - 1, acc)
  IN F(Len(ref_lines), <<>>)

ref_issues(ref_lines, ref_start) ==
  LET RECURSIVE F(_, _)
      F(k, acc) ==
        IF k > Len(ref_lines) THEN acc
        ELSE IF Strip(ref_lines[k]) # <<>>
             THEN F(k + 1, acc \o check_ref_entry(ref_lines[k], ref_start + k - 1))
        ELSE F(k + 1, acc)
  IN F(1, <<>>)

process(t, strat) ==
  LET lines == Split(t)
      body_lines == body_lines_of(lines)
      quotes == check_quotes(Join(body_lines), strat)
      all_issues == body_issues(body_lines) \o quotes.issues
                      \o ref_issues(ref_lines_of(lines), ref_start_of(lines))
  IN [issues |-> all_issues,
      replacements |-> quotes.replacements,
      fixed_text |-> apply_fixes(t, all_issues, quotes.replacements)]

\* ------------------------------------------------------------------------
\* the run of process() on one document
VARIABLES
  text,                \* the document
  strategy,            \* Config.quote_strategy
  pc,                  \* the stage of process()
  ln,                  \* the body line check_body_line is at (1-based)
  para,                \* the paragraph pair_quotes_by_paragraph is at (1-based)
  abs_offset,          \* the offset of that paragraph in the body text
  queue,               \* the glyphs of the paragraph still to process
  cur,                 \* the active frame
  meta_stack,          \* the suspended frames
  pairs,               \* the Quote Pairs so far
  unpaired,            \* the unpaired reports so far
  all_issues,          \* the Issues so far
  all_quote_replacements,
  fixed_text           \* the patched text, once apply_fixes has run

vars == << text, strategy, pc, ln, para, abs_offset, queue, cur, meta_stack,
           pairs, unpaired, all_issues, all_quote_replacements, fixed_text >>

Texts(alphabet, n) == UNION { [1..k -> alphabet] : k \in 0..n }

Start(t, strat) ==
  /\ text = t
  /\ strategy = strat
  /\ pc = "body"
  /\ ln = 1
  /\ para = 1
  /\ abs_offset = 0
  /\ queue = <<>>
  /\ cur = new_stackb
  /\ meta_stack = <<>>
  /\ pairs = <<>>
  /\ unpaired = <<>>
  /\ all_issues = <<>>
  /\ all_quote_replacements = <<>>
  /\ fixed_text = <<>>

\* documents of the whole pipeline
Alphabet == {"zh", "a", ",", "(", ")", "dq", "ldq", "rdq", "nl", "#", "lt"}

Init == \E t \in Texts(Alphabet, MaxLen), strat \in {"A", "B"} : Start(t, strat)

\* documents of quoted prose: every quote glyph, both scripts, a bracket
QuoteAlphabet == {"dq", "sq", "ldq", "rdq", "lsq", "rsq", "nl", "zh", "a", "("}

InitQuote == \E t \in Texts(QuoteAlphabet, MaxLen), strat \in {"A", "B"} : Start(t, strat)

\* documents of bracketed prose: both bracket conventions, both scripts
BracketAlphabet == {"(", ")", "fl", "fr", "a", "zh", "nl", "dq"}

InitBracket == \E t \in Texts(BracketAlphabet, MaxLen), strat \in {"A", "B"} : Start(t, strat)

\* documents with periods after digits, letters, ideographs and blanks
PeriodAlphabet == {".", "1", "a", "zh", "sp", "nl", "#", "dq"}

InitPeriod == \E t \in Texts(PeriodAlphabet, MaxLen), strat \in {"A", "B"} : Start(t, strat)

\* documents with a reference list: a short body, the references heading,
\* an entry made of an author part, a year part and a title part, and
\* possibly a second entry
RefAlphabet == {"zh", "a", ",", "fcomma", "lt"}
RefYears == { <<>>, <<"1", "1", "1", "1", ".">>, <<"(", "1", "1", "1", "1", ")", ".">> }
RefBodies ==
  { <<"#", "nl">>,
    <<",", "zh", "nl", "dq", "zh", "dq", ",", "nl", "#", "nl">> }
RefTails == { <<>>, <<"nl", "zh", ",">> }

InitRefs ==
  \E body \in RefBodies, year \in RefYears, tail \in RefTails, strat \in {"A", "B"} :
    \E author \in Texts(RefAlphabet, MaxEntry) :
      \E title \in Texts(RefAlphabet, MaxEntry - Len(author)) :
        Start(body \o author \o year \o title \o tail, strat)

\* documents made of quote glyphs only, in one or more paragraphs
EngineAlphabet == {"dq", "sq", "ldq", "rdq", "lsq", "rsq", "nl"}

InitEngine == \E t \in Texts(EngineAlphabet, MaxLen), strat \in {"A", "B"} : Start(t, strat)

\* one-line documents with a bracket pair: text before it, an opener of
\* either convention, a content (free, or a year of YearDigits digits), a
\* closer of either convention, text after it
ContentAlphabet == {"a", "1", ".", "zh", "sp"}
YearContents == { [i \in 1..YearDigits |-> "1"], <<"sp">> \o [i \in 1..YearDigits |-> "1"] }
BracketPrefixes == { <<>>, <<"zh">>, <<"a">> }
BracketSuffixes == { <<>>, <<"dq", "zh">> }

InitConvention ==
  \E prefix \in BracketPrefixes, open \in {"(", "fl"},
     content \in Texts(ContentAlphabet, MaxContent) \cup YearContents,
     close \in {")", "fr"}, suffix \in BracketSuffixes, strat \in {"A", "B"} :
    Start(prefix \o << open >> \o content \o << close >> \o suffix, strat)

\* documents whose reference lines hold quote and bracket glyphs: a body
\* with quotes and brackets of its own that ends with the references
\* heading, then reference lines over glyphs and a primary-script comma
RefGlyphAlphabet == {"dq", "ldq", "(", "fr", "fcomma", "nl"}
GlyphBodies ==
  { <<"#">>,
    <<"zh", "dq", "#">>,
    <<"dq", "zh", "dq", "(", "nl", "#">> }

InitRefGlyphs ==
  \E body \in GlyphBodies, refs \in Texts(RefGlyphAlphabet, MaxLen), strat \in {"A", "B"} :
    Start(body \o << NL >> \o refs, strat)

body_lines == body_lines_of(Split(text))
body_text == Join(body_lines)
paragraphs == paragraphs_of(body_text)
engine == EngineState(cur, meta_stack, pairs, unpaired)

\* process(): one body line through check_body_line
CheckBodyLine ==
  /\ pc = "body"
  /\ all_issues' = all_issues \o check_body_line(body_lines[ln], ln)
  /\ IF ln < Len(body_lines)
     THEN ln' = ln + 1 /\ pc' = pc
     ELSE ln' = ln /\ pc' = "quotes"
  /\ UNCHANGED << text, strategy, para, abs_offset, queue, cur, meta_stack, pairs,
                  unpaired, all_quote_replacements, fixed_text >>

\* pair_quotes_by_paragraph: the queue of the next paragraph; a paragraph
\* without a quote glyph is passed over
ScanParagraph ==
  /\ pc = "quotes"
  /\ para <= Len(paragraphs)
  /\ queue' = queue_of(paragraphs[para], abs_offset)
  /\ IF queue' # <<>>
     THEN pc' = "queue" /\ UNCHANGED << para, abs_offset >>
     ELSE /\ pc' = pc
          /\ para' = para + 1
          /\ abs_offset' = abs_offset + Len(paragraphs[para]) + 1
  /\ cur' = new_stackb
  /\ meta_stack' = <<>>
  /\ UNCHANGED << text, strategy, ln, pairs, unpaired, all_issues,
                  all_quote_replacements, fixed_text >>

\* _process_queue: one glyph
ProcessGlyph ==
  /\ pc = "queue"
  /\ queue # <<>>
  /\ LET st == process_glyph(engine, Head(queue).pos, Head(queue).ch, body_text)
     IN /\ cur' = st.cur
        /\ meta_stack' = st.meta_stack
        /\ pairs' = st.pairs
        /\ unpaired' = st.unpaired
  /\ queue' = Tail(queue)
  /\ UNCHANGED << text, strategy, pc, ln, para, abs_offset, all_issues,
                  all_quote_replacements, fixed_text >>

\* _process_queue: the end of the paragraph; the frames are dropped
ParagraphEnd ==
  /\ pc = "queue"
  /\ queue = <<>>
  /\ unpaired' = paragraph_end(engine, body_text).unpaired
  /\ cur' = new_stackb
  /\ meta_stack' = <<>>
  /\ para' = para + 1
  /\ abs_offset' = abs_offset + Len(paragraphs[para]) + 1
  /\ pc' = "quotes"
  /\ UNCHANGED << text, strategy, ln, queue, pairs, all_issues,
                  all_quote_replacements, fixed_text >>

\* check_quotes: the pairs and the unpaired reports become Issues
CheckQuotes ==
  /\ pc = "quotes"
  /\ para > Len(paragraphs)
  /\ LET found == quote_findings(pairs, unpaired, body_text, strategy)
     IN /\ all_issues' = all_issues \o found.issues
        /\ all_quote_replacements' = all_quote_replacements \o found.replacements
  /\ pc' = "refs"
  /\ UNCHANGED << text, strategy, ln, para, abs_offset, queue, cur, meta_stack,
                  pairs, unpaired, fixed_text >>

\* process(): the reference lines through check_ref_entry
CheckRefs ==
  /\ pc = "refs"
  /\ all_issues' = all_issues \o ref_issues(ref_lines_of(Split(text)), ref_start_of(Split(text)))
  /\ pc' = "fix"
  /\ UNCHANGED << text, strategy, ln, para, abs_offset, queue, cur, meta_stack,
                  pairs, unpaired, all_quote_replacements, fixed_text >>

\* process(): apply_fixes
ApplyFixes ==
  /\ pc = "fix"
  /\ fixed_text' = apply_fixes(text, all_issues, all_quote_replacements)
  /\ pc' = "done"
  /\ UNCHANGED << text, strategy, ln, para, abs_offset, queue, cur, meta_stack,
                  pairs, unpaired, all_issues, all_quote_replacements >>

Next ==
  \/ CheckBodyLine
  \/ ScanParagraph
  \/ ProcessGlyph
  \/ ParagraphEnd
  \/ CheckQuotes
  \/ CheckRefs
  \/ ApplyFixes

Spec == Init /\ [][Next]_vars

SpecQuote == InitQuote /\ [][Next]_vars

SpecBracket == InitBracket /\ [][Next]_vars

SpecPeriod == InitPeriod /\ [][Next]_vars

SpecRefs == InitRefs /\ [][Next]_vars

SpecEngine == InitEngine /\ [][Next]_vars

SpecConvention == InitConvention /\ [][Next]_vars
SpecRefGlyphs == InitRefGlyphs /\ [][Next]_vars

\* the run agrees with process() as a function
RunIsProcess ==
  pc = "done" =>
    LET r == process(text, strategy)
    IN /\ r.issues = all_issues
       /\ r.replacements = all_quote_replacements
       /\ r.fixed_text = fixed_text

\* ------------------------------------------------------------------------
\* properties
\* the stage check_quotes leaves: pairs and reports have just become Issues
\* and replacements (the later stages add reference Issues and the patched
\* text, and leave the quote Issues as they are)
QuotesChecked == pc = "refs"

\* the offset (0-based) of the start of a line (1-based) of the document
LineStart(t, line_no) ==
  LET lines == Split(t)
      RECURSIVE F(_, _)
      F(i, acc) == IF i >= line_no THEN acc ELSE F(i + 1, acc + Len(lines[i]) + 1)
  IN F(1, 0)

\* an Issue of the quote check
IsQuoteIssue(issue) == issue.section = "body" /\ issue.char \in QUOTE_CHARS

IsAutoFixable(issue) == ~issue.is_warning /\ issue.suggestion # UNRESOLVED

\* the offset in the document an Issue is located at: a quote Issue carries
\* the absolute offset of its glyph, every other Issue a line and a column
IssueOffset(issue) ==
  IF IsQuoteIssue(issue) THEN issue.col_no
  ELSE LineStart(text, issue.line_no) + issue.col_no

\* the offset of paragraph k of the body, and the offsets of its characters
ParagraphOffset(k) == LineStart(body_text, k)
ParagraphRange(k) == ParagraphOffset(k)..(ParagraphOffset(k) + Len(paragraphs[k]) - 1)
ParagraphGlyphs(k) == queue_of(paragraphs[k], ParagraphOffset(k))

PairsIn(k) == { j \in 1..Len(pairs) : pairs[j].open_pos \in ParagraphRange(k) }
UnpairedIn(k) == { j \in 1..Len(unpaired) : unpaired[j].pos \in ParagraphRange(k) }
QuoteIssuesIn(k) ==
  { j \in 1..Len(all_issues) :
      IsQuoteIssue(all_issues[j]) /\ all_issues[j].col_no \in ParagraphRange(k) }

\* C1 (as claimed): once process() is done, process() on the patched text
\* with the same strategy returns no auto-fixable Issue, and every Issue it
\* returns is a manual-review warning the first run returned too.
C1_Idempotence ==
  pc = "done" =>
    LET again == process(fixed_text, strategy).issues
    IN \A k \in 1..Len(again) :
         /\ again[k].is_warning
         /\ \E j \in 1..Len(all_issues) : all_issues[j] = again[k]

\* C2: every Quote Pair has its open offset before its close offset and no
\* newline of the body lies between the two: a pair never spans paragraphs.
C2_PairWithinParagraph ==
  \A k \in 1..Len(pairs) :
    /\ pairs[k].open_pos < pairs[k].close_pos
    /\ \A i \in pairs[k].open_pos..pairs[k].close_pos : body_text[i + 1] # NL

\* C2 witness: a pair in a later paragraph while a distinct-role opener of an
\* earlier paragraph stayed unclosed.
C2_Witness ==
  /\ pc = "done"
  /\ \E k \in 1..Len(pairs), u \in 1..Len(unpaired) :
       /\ unpaired[u].is_open
       /\ unpaired[u].char \in {ZH_DQUOTE_OPEN, ZH_SQUOTE_OPEN}
       /\ pairs[k].close_char \in {ZH_DQUOTE_CLOSE, ZH_SQUOTE_CLOSE}
       /\ unpaired[u].line_no < pos_to_lineno_from_text(body_text, pairs[k].open_pos)

\* a paragraph whose only quote glyphs are one curly opener and then one
\* curly closer
IsSimpleCurly(k) ==
  /\ Len(ParagraphGlyphs(k)) = 2
  /\ ParagraphGlyphs(k)[1].ch \in {ZH_DQUOTE_OPEN, ZH_SQUOTE_OPEN}
  /\ ParagraphGlyphs(k)[2].ch \in {ZH_DQUOTE_CLOSE, ZH_SQUOTE_CLOSE}

Between(k) == Slice(body_text, ParagraphGlyphs(k)[1].pos + 1, ParagraphGlyphs(k)[2].pos)

IsStraightDoublePair(k) ==
  /\ Len(ParagraphGlyphs(k)) = 2
  /\ ParagraphGlyphs(k)[1].ch = STRAIGHT_DOUBLE
  /\ ParagraphGlyphs(k)[2].ch = STRAIGHT_DOUBLE
  /\ dominant_lang(Between(k)) = "en"

LeftOpen(k) ==
  LET glyphs == ParagraphGlyphs(k)
      RECURSIVE F(_, _)
      F(i, stack) ==
        IF i > Len(glyphs) THEN Range(stack)
        ELSE IF glyphs[i].ch \in {ZH_DQUOTE_OPEN, ZH_SQUOTE_OPEN}
             THEN F(i + 1, Append(stack, glyphs[i].pos))
        ELSE IF glyphs[i].ch \in {ZH_DQUOTE_CLOSE, ZH_SQUOTE_CLOSE} /\ stack # <<>>
             THEN F(i + 1, SubSeq(stack, 1, Len(stack) - 1))
        ELSE F(i + 1, stack)
  IN F(1, <<>>)

WarningsAt(pos) ==
  { j \in 1..Len(all_issues) :
      /\ IsQuoteIssue(all_issues[j])
      /\ all_issues[j].col_no = pos
      /\ all_issues[j].is_warning }

\* C5: a distinct-role opener that no closer of its paragraph balances gets
\* exactly one manual-review warning, located at its offset and naming its
\* glyph, and no Quote Pair uses it.
C5_UnclosedOpener ==
  QuotesChecked =>
    \A k \in 1..Len(paragraphs) : \A pos \in LeftOpen(k) :
      /\ Cardinality(WarningsAt(pos)) = 1
      /\ \A j \in WarningsAt(pos) :
           /\ all_issues[j].char = body_text[pos + 1]
           /\ all_issues[j].suggestion = UNRESOLVED
           /\ all_issues[j].line_no = k
      /\ \A j \in 1..Len(pairs) : pairs[j].open_pos # pos /\ pairs[j].close_pos # pos

\* C5 witness: an unclosed opener in a paragraph that also resolved a pair.
C5_Witness ==
  /\ pc = "done"
  /\ \E k \in 1..Len(paragraphs) : LeftOpen(k) # {} /\ PairsIn(k) # {}

\* C6: the character at the offset of a manual-review Issue, or of an Issue
\* with the unresolved marker, is the same in the patched text as in the
\* document, and no quote replacement has that offset.
C6_WarningsNotApplied ==
  pc = "done" =>
    \A j \in 1..Len(all_issues) :
      all_issues[j].is_warning \/ all_issues[j].suggestion = UNRESOLVED =>
        LET pos == IssueOffset(all_issues[j])
        IN /\ pos < Len(text)
           /\ fixed_text[pos + 1] = text[pos + 1]
           /\ IsQuoteIssue(all_issues[j]) =>
                \A r \in 1..Len(all_quote_replacements) :
                  all_quote_replacements[r].abs_pos # pos

\* C6 witness: a run that reported an unresolved quote and a disagreeing
\* reference entry, or an unresolved quote next to a fix it applied.
C6_Witness ==
  /\ pc = "done"
  /\ \E j \in 1..Len(all_issues) : all_issues[j].is_warning /\ IsQuoteIssue(all_issues[j])
  /\ \/ fixed_text # text
     \/ \E j \in 1..Len(all_issues) : all_issues[j].is_warning /\ all_issues[j].section = "refs"

\* the auto-fixable Issues located at an offset of the document
FixesAt(pos) ==
  { j \in 1..Len(all_issues) :
      IsAutoFixable(all_issues[j]) /\ IssueOffset(all_issues[j]) = pos }

C8_IssueColumn ==
  \A j \in 1..Len(all_issues) :
    IsAutoFixable(all_issues[j]) =>
      LET line == Split(text)[all_issues[j].line_no]
      IN /\ all_issues[j].col_no < Len(line)
         /\ line[all_issues[j].col_no + 1] = all_issues[j].char

\* the sentence around a pair: the stretch of its paragraph between the
\* nearest full stops
IsTerminator(c) == c \in {"fstop", NL}

SentenceAround(pair) ==
  LET before == { i \in 1..pair.open_pos : IsTerminator(body_text[i]) }
      after == { i \in (pair.close_pos + 2)..Len(body_text) : IsTerminator(body_text[i]) }
      first == IF before = {} THEN 1 ELSE (CHOOSE i \in before : \A j \in before : i >= j) + 1
      last == IF after = {} THEN Len(body_text)
              ELSE (CHOOSE i \in after : \A j \in after : i <= j) - 1
  IN SubSeq(body_text, first, last)

CURLY == << ZH_DQUOTE_OPEN, ZH_DQUOTE_CLOSE >>
STRAIGHT == << STRAIGHT_DOUBLE, STRAIGHT_DOUBLE >>

HasClassifiable(s) == \E i \in 1..Len(s) : IsCJK(s[i]) \/ IsEN(s[i])

\* C9 (as claimed, for a pair whose content has a script): under the
\* context-driven strategy the canonical form of a pair is straight if the
\* pair is inside brackets, otherwise curly if the sentence around the pair
\* is primary-dominant and straight if it is not.
C9_ContextDriven ==
  strategy = "A" =>
    \A j \in 1..Len(pairs) :
      HasClassifiable(pairs[j].content) =>
      decide_correct_quote_form(pairs[j], strategy) =
        IF pairs[j].in_brackets THEN STRAIGHT
        ELSE IF dominant_lang(SentenceAround(pairs[j])) = "zh" THEN CURLY
        ELSE STRAIGHT

\* C10 (as claimed, for a sentence that has a script): under the
\* content-driven strategy the canonical form of a pair follows the dominant
\* script of its content, and the script of the sentence around it when the
\* content has no ideograph and no Latin letter.
C10_ContentDriven ==
  strategy = "B" =>
    \A j \in 1..Len(pairs) :
      HasClassifiable(SentenceAround(pairs[j])) =>
      decide_correct_quote_form(pairs[j], strategy) =
        IF dominant_lang(IF HasClassifiable(pairs[j].content)
                         THEN pairs[j].content
                         ELSE SentenceAround(pairs[j])) = "zh"
        THEN CURLY ELSE STRAIGHT

\* the Issues of the quote check and the replacements located at an offset
QuoteIssuesAt(pos) ==
  { i \in 1..Len(all_issues) : IsQuoteIssue(all_issues[i]) /\ all_issues[i].col_no = pos }

ReplacementsAt(pos) ==
  { r \in 1..Len(all_quote_replacements) : all_quote_replacements[r].abs_pos = pos }

\* what the quote check holds for the glyph ch at pos when the canonical
\* glyph of its side is expected
SideReported(pos, ch, expected) ==
  IF ch # expected
  THEN /\ Cardinality(QuoteIssuesAt(pos)) = 1
       /\ \A i \in QuoteIssuesAt(pos) :
            /\ IsAutoFixable(all_issues[i])
            /\ all_issues[i].char = ch
            /\ all_issues[i].suggestion = expected
            /\ all_issues[i].line_no = pos_to_lineno_from_text(body_text, pos)
       /\ Cardinality(ReplacementsAt(pos)) = 1
       /\ \A r \in ReplacementsAt(pos) :
            /\ all_quote_replacements[r].original_char = ch
            /\ all_quote_replacements[r].correct_char = expected
  ELSE QuoteIssuesAt(pos) = {} /\ ReplacementsAt(pos) = {}

\* C11: once the quote check has run, each side of each Quote Pair whose
\* glyph differs from the canonical glyph of that side has exactly one Issue,
\* auto-fixable, and exactly one replacement, both at the absolute offset of
\* the glyph and both with the canonical glyph; a side whose glyph is the
\* canonical one has no Issue and no replacement.
C11_IssuePerMismatchedSide ==
  QuotesChecked =>
    \A j \in 1..Len(pairs) :
      LET expected == decide_correct_quote_form(pairs[j], strategy)
      IN /\ body_text[pairs[j].open_pos + 1] = pairs[j].open_char
         /\ body_text[pairs[j].close_pos + 1] = pairs[j].close_char
         /\ SideReported(pairs[j].open_pos, pairs[j].open_char, expected[1])
         /\ SideReported(pairs[j].close_pos, pairs[j].close_char, expected[2])

\* C11 witness: a pair with one side in canonical form and the other side
\* reported.
C11_Witness ==
  /\ pc = "done"
  /\ \E j \in 1..Len(pairs) :
       LET expected == decide_correct_quote_form(pairs[j], strategy)
       IN /\ pairs[j].open_char = expected[1]
          /\ pairs[j].close_char # expected[2]
          /\ QuoteIssuesAt(pairs[j].close_pos) # {}
          /\ QuoteIssuesAt(pairs[j].open_pos) = {}

\* C12 (as claimed): the inside-bracket flag of every Quote Pair, of
\* ambiguous glyphs or of distinct-role glyphs, is set exactly when the
\* bracket depth from the start of its paragraph up to its opening offset is
\* greater than zero.
C12_FlagAtOpener ==
  \A j \in 1..Len(pairs) :
    pairs[j].in_brackets <=> bracket_depth_at(body_text, pairs[j].open_pos) > 0

\* the body lines check_body_line has been through
LinesChecked == IF pc = "body" THEN 1..(ln - 1) ELSE 1..Len(body_lines)

\* a line whose bracket glyphs, of both conventions taken as one bracket
\* type, are balanced: no closer without a pending opener, no opener left
Balanced(line) ==
  LET RECURSIVE F(_, _)
      F(i, depth) ==
        IF i > Len(line) THEN depth = 0
        ELSE IF IsOpenBracket(line[i]) THEN F(i + 1, depth + 1)
        ELSE IF IsCloseBracket(line[i]) THEN depth > 0 /\ F(i + 1, depth - 1)
        ELSE F(i + 1, depth)
  IN F(1, 0)

Openers(line) == { i \in 0..(Len(line) - 1) : IsOpenBracket(line[i + 1]) }

\* C13: for every checked line whose bracket glyphs are balanced,
\* find_bracket_pairs returns exactly one pair per opener, every pair has its
\* opener before its closer, and any two pairs are disjoint or one lies
\* strictly inside the other.
C13_BracketBalance ==
  \A n \in LinesChecked :
    Balanced(body_lines[n]) =>
      LET line == body_lines[n]
          bp == find_bracket_pairs(line)
      IN /\ Len(bp) = Cardinality(Openers(line))
         /\ \A o \in Openers(line) :
              Cardinality({ k \in 1..Len(bp) : bp[k].open_pos = o }) = 1
         /\ \A k \in 1..Len(bp) :
              /\ bp[k].open_pos < bp[k].close_pos
              /\ IsOpenBracket(line[bp[k].open_pos + 1])
              /\ IsCloseBracket(line[bp[k].close_pos + 1])
         /\ \A k, m \in 1..Len(bp) :
              k # m =>
                \/ bp[k].close_pos < bp[m].open_pos
                \/ bp[m].close_pos < bp[k].open_pos
                \/ bp[k].open_pos < bp[m].open_pos /\ bp[m].close_pos < bp[k].close_pos
                \/ bp[m].open_pos < bp[k].open_pos /\ bp[k].close_pos < bp[m].close_pos

\* C13 witness: a checked line with one pair nested in another, each pair
\* mixing the two conventions.
C13_Witness ==
  /\ pc = "done"
  /\ \E n \in LinesChecked :
       /\ Balanced(body_lines[n])
       /\ LET bp == find_bracket_pairs(body_lines[n])
          IN \E k, m \in 1..Len(bp) :
               /\ bp[k].open_pos < bp[m].open_pos /\ bp[m].close_pos < bp[k].close_pos
               /\ bp[k].open_ch = "(" /\ bp[k].close_ch = "fr"
               /\ bp[m].open_ch = "fl" /\ bp[m].close_ch = ")"

\* the script the character scan expects on line n (1-based) of the
\* document: the dominant script of a body line, the author's script of a
\* reference entry ("en" when it has none); "none" for a line that is not
\* scanned (a blank reference line, an entry whose scripts disagree)
ExpectedLang(n) ==
  LET lines == Split(text)
      entry == lines[n]
      author_lang == detect_ref_author_lang(entry)
      title_lang == detect_work_title_lang(entry)
  IN IF n <= Len(body_lines) THEN dominant_lang(entry)
     ELSE IF Strip(entry) = <<>> THEN "none"
     ELSE IF author_lang # "none" /\ title_lang # "none" /\ author_lang # title_lang
          THEN "none"
     ELSE IF author_lang # "none" THEN author_lang
     ELSE "en"

\* the Issues about the character ch at column col (0-based) of line n
IssuesOn(n, col, ch) ==
  { j \in 1..Len(all_issues) :
      /\ all_issues[j].line_no = n
      /\ all_issues[j].col_no = col
      /\ all_issues[j].char = ch }

\* C14: on a line where the primary script is expected, a half-width period
\* that follows a digit or a Latin letter has no Issue; every other
\* half-width period, the one at the start of the line included, has exactly
\* one Issue, auto-fixable, that suggests the primary-script full stop.
C14_PeriodDisambiguation ==
  pc = "done" =>
    \A n \in 1..Len(Split(text)) :
      ExpectedLang(n) = "zh" =>
        LET line == Split(text)[n]
        IN \A col \in 0..(Len(line) - 1) :
             line[col + 1] = "." =>
               IF col > 0 /\ (IsDigit(line[col]) \/ IsEN(line[col]))
               THEN IssuesOn(n, col, ".") = {}
               ELSE /\ Cardinality(IssuesOn(n, col, ".")) = 1
                    /\ \A j \in IssuesOn(n, col, ".") :
                         /\ IsAutoFixable(all_issues[j])
                         /\ all_issues[j].suggestion = "fstop"

\* C14 witness: a line of primary script with a flagged period at its start
\* and an unflagged period after a digit.
C14_Witness ==
  /\ pc = "done"
  /\ \E n \in 1..Len(Split(text)) :
       LET line == Split(text)[n]
       IN /\ ExpectedLang(n) = "zh"
          /\ Len(line) > 2
          /\ line[1] = "." /\ IssuesOn(n, 0, ".") # {}
          /\ \E col \in 1..(Len(line) - 1) :
               line[col + 1] = "." /\ IsDigit(line[col]) /\ IssuesOn(n, col, ".") = {}

\* the reference entries (lines of the document after the heading, not
\* blank) whose author script and title script are both determined and
\* disagree
Disagreeing ==
  { n \in 1..Len(Split(text)) :
      /\ n > Len(body_lines)
      /\ Strip(Split(text)[n]) # <<>>
      /\ detect_ref_author_lang(Split(text)[n]) # "none"
      /\ detect_work_title_lang(Split(text)[n]) # "none"
      /\ detect_ref_author_lang(Split(text)[n]) # detect_work_title_lang(Split(text)[n]) }

IssuesOfLine(n) == { j \in 1..Len(all_issues) : all_issues[j].line_no = n }

\* C15: a reference entry whose author script and title script are both
\* determined and disagree has exactly one Issue, a manual-review warning of
\* the references section, hence no punctuation Issue, and the patched text
\* holds the entry unchanged.
C15_ReferenceMismatch ==
  pc = "done" =>
    \A n \in Disagreeing :
      /\ Cardinality(IssuesOfLine(n)) = 1
      /\ \A j \in IssuesOfLine(n) :
           /\ all_issues[j].is_warning
           /\ all_issues[j].section = "refs"
           /\ ~IsAutoFixable(all_issues[j])
      /\ Split(fixed_text)[n] = Split(text)[n]

\* C15 witness: an entry with an ideographic author and, after the year, a
\* title region that is not primary-dominant, holding a half-width comma the
\* scan would flag, in a document where another entry is patched.
C15_Witness ==
  /\ pc = "done"
  /\ fixed_text # text
  /\ \E n \in Disagreeing :
       /\ detect_ref_author_lang(Split(text)[n]) = "zh"
       /\ "lt" \notin Range(Split(text)[n])
       /\ "," \in Range(Split(text)[n])

\* the stage of process() an Issue comes from: 1 for the line-by-line check
\* of the body, 2 for the quote check of the body, 3 for the references
StageOf(issue) ==
  IF issue.section = "refs" THEN 3
  ELSE IF IsQuoteIssue(issue) THEN 2
  ELSE 1

\* C16: in the Issue sequence, the Issues of the body lines come first, in
\* line order, then the quote Issues of the body, then the Issues of the
\* reference entries, in line order.
C16_IssueOrdering ==
  \A i, j \in 1..Len(all_issues) :
    i < j =>
      /\ StageOf(all_issues[i]) <= StageOf(all_issues[j])
      /\ StageOf(all_issues[i]) = StageOf(all_issues[j]) /\ StageOf(all_issues[i]) # 2 =>
           all_issues[i].line_no <= all_issues[j].line_no

\* C16 witness: a finished run with Issues of two body lines, quote Issues
\* and Issues of two reference entries.
C16_Witness ==
  /\ pc = "done"
  /\ \E i, j, q, k, m \in 1..Len(all_issues) :
       /\ StageOf(all_issues[i]) = 1 /\ StageOf(all_issues[j]) = 1
       /\ all_issues[i].line_no < all_issues[j].line_no
       /\ StageOf(all_issues[q]) = 2
       /\ StageOf(all_issues[k]) = 3 /\ StageOf(all_issues[m]) = 3
       /\ all_issues[k].line_no < all_issues[m].line_no

\* the glyph _process_queue is about to process, and its kind
AtGlyph == pc = "queue" /\ queue # <<>>
IsKnownOpen(ch) == ch \in {ZH_DQUOTE_OPEN, ZH_SQUOTE_OPEN}
IsKnownClose(ch) == ch \in {ZH_DQUOTE_CLOSE, ZH_SQUOTE_CLOSE}
IsStraight(ch) == ch \in {STRAIGHT_DOUBLE, STRAIGHT_SINGLE}

\* the report of the glyph g as unclosed opener or as stray closer
ReportOf(g, is_open) ==
  UnpairedQuote(g.pos, g.ch, is_open, pos_to_lineno_from_text(body_text, g.pos))

\* the reports of the glyphs of a buffer, as unclosed, in buffer order
ReportsOf(buffer) == [k \in 1..Len(buffer) |-> ReportOf(buffer[k], TRUE)]

\* a step that processes a distinct-role closer while the slot of the active
\* frame is empty or holds the placeholder: no pair is added, and the closer
\* is reported as stray, after the reports of the glyphs it pre-empts
StrayCloserStep ==
  AtGlyph /\ IsKnownClose(Head(queue).ch) /\ cur.zh_slot.tag \in {"None", "^"} =>
    /\ pairs' = pairs
    /\ unpaired' = unpaired \o ReportsOf(cur.en_stack) \o << ReportOf(Head(queue), FALSE) >>

\* C17: a distinct-role closer that arrives while the slot is empty or holds
\* a placeholder is reported as a stray closer and makes no Quote Pair; every
\* pair closed by a distinct-role closer is opened by a distinct-role opener,
\* and no glyph of a pair is also reported as unpaired.
C17_StrayCloser ==
  /\ [](\A j \in 1..Len(pairs) :
          /\ IsKnownClose(pairs[j].close_char) => IsKnownOpen(pairs[j].open_char)
          /\ \A u \in 1..Len(unpaired) :
               unpaired[u].pos # pairs[j].open_pos /\ unpaired[u].pos # pairs[j].close_pos)
  /\ [][StrayCloserStep]_vars

\* C17 witness: a stray closer reported after a pair of ambiguous glyphs of
\* the same paragraph, that is, while the slot held the placeholder.
C17_Witness ==
  /\ pc = "done"
  /\ \E j \in 1..Len(pairs), u \in 1..Len(unpaired) :
       /\ IsStraight(pairs[j].open_char)
       /\ ~unpaired[u].is_open
       /\ IsKnownClose(unpaired[u].char)
       /\ pairs[j].close_pos < unpaired[u].pos
       /\ \A i \in pairs[j].close_pos..unpaired[u].pos : body_text[i + 1] \notin {NL, ZH_DQUOTE_OPEN, ZH_SQUOTE_OPEN}

\* a step that processes a distinct-role glyph while the slot is occupied
\* and the buffer holds glyphs: the buffered glyphs are reported as unclosed,
\* in buffer order, and the step ends as the step from the same frame with an
\* empty buffer ends; an opener leaves the emptied frame suspended
PreemptionStep ==
  /\ AtGlyph
  /\ IsKnownOpen(Head(queue).ch) \/ IsKnownClose(Head(queue).ch)
  /\ cur.zh_slot.tag # "None"
  /\ cur.en_stack # <<>>
  =>
    LET g == Head(queue)
        emptied == [cur EXCEPT !.en_stack = <<>>]
        reported == unpaired \o ReportsOf(cur.en_stack)
        after == process_glyph(EngineState(emptied, meta_stack, pairs, reported),
                               g.pos, g.ch, body_text)
    IN /\ SubSeq(unpaired', 1, Len(reported)) = reported
       /\ cur' = after.cur
       /\ meta_stack' = after.meta_stack
       /\ pairs' = after.pairs
       /\ unpaired' = after.unpaired
       /\ IsKnownOpen(g.ch) =>
            /\ meta_stack' = Append(meta_stack, emptied)
            /\ cur' = [zh_slot |-> SlotReal(g.pos, g.ch), en_stack |-> <<>>]
            /\ unpaired' = reported
       /\ \A k \in 1..Len(cur.en_stack), j \in 1..Len(pairs') :
            pairs'[j].open_pos # cur.en_stack[k].pos /\ pairs'[j].close_pos # cur.en_stack[k].pos

\* C18: a distinct-role glyph that arrives while the slot is occupied and
\* the buffer is not empty has every buffered glyph reported as unclosed, the
\* buffer cleared, and is then processed as with an empty buffer; no offset
\* is reported twice, and a glyph reported as unclosed is in no Quote Pair.
C18_Preemption ==
  /\ [](\A u, v \in 1..Len(unpaired) : unpaired[u].pos = unpaired[v].pos => u = v)
  /\ [](\A u \in 1..Len(unpaired) :
          unpaired[u].is_open =>
            \A j \in 1..Len(pairs) :
              pairs[j].open_pos # unpaired[u].pos /\ pairs[j].close_pos # unpaired[u].pos)
  /\ [][PreemptionStep]_vars

\* C18 witness: two buffered glyphs of different kinds reported as unclosed
\* ahead of a distinct-role opener of their paragraph, which then makes a
\* pair.
C18_Witness ==
  /\ pc = "done"
  /\ \E j \in 1..Len(pairs), u, v \in 1..Len(unpaired) :
       /\ IsKnownOpen(pairs[j].open_char)
       /\ unpaired[u].is_open /\ unpaired[u].char = STRAIGHT_DOUBLE
       /\ unpaired[v].is_open /\ unpaired[v].char = STRAIGHT_SINGLE
       /\ unpaired[u].pos < pairs[j].open_pos
       /\ unpaired[v].pos < pairs[j].open_pos
       /\ unpaired[u].line_no = unpaired[v].line_no
       /\ unpaired[u].line_no = pos_to_lineno_from_text(body_text, pairs[j].open_pos)

\* a step that processes an ambiguous glyph while the buffer holds one glyph
\* of the same kind: the two are resolved as one Quote Pair, the buffered
\* glyph as its open side, and the buffer is cleared
SameKindStep ==
  /\ AtGlyph
  /\ IsStraight(Head(queue).ch)
  /\ Len(cur.en_stack) = 1
  /\ cur.en_stack[1].ch = Head(queue).ch
  =>
    /\ cur' = [cur EXCEPT !.en_stack = <<>>]
    /\ meta_stack' = meta_stack
    /\ unpaired' = unpaired
    /\ Len(pairs') = Len(pairs) + 1
    /\ SubSeq(pairs', 1, Len(pairs)) = pairs
    /\ LET pair == pairs'[Len(pairs')]
       IN /\ pair.open_pos = cur.en_stack[1].pos
          /\ pair.close_pos = Head(queue).pos
          /\ pair.open_char = Head(queue).ch
          /\ pair.close_char = Head(queue).ch
          /\ pair.content = Slice(body_text, pair.open_pos + 1, pair.close_pos)

\* C19: while a paragraph is processed the buffer of the active frame holds
\* ambiguous glyphs only, at most two, and two only of different kinds; an
\* ambiguous glyph that meets one buffered glyph of its kind is resolved with
\* it as one Quote Pair at once and the buffer is cleared.
C19_BufferInvariant ==
  /\ [](/\ Len(cur.en_stack) <= 2
        /\ \A k \in 1..Len(cur.en_stack) : IsStraight(cur.en_stack[k].ch)
        /\ Len(cur.en_stack) = 2 => cur.en_stack[1].ch # cur.en_stack[2].ch)
  /\ [][SameKindStep]_vars

\* C19 witness: a full buffer, of two glyphs of different kinds, in a
\* paragraph that has resolved a pair of two glyphs of the same kind.
C19_Witness ==
  /\ pc = "queue"
  /\ Len(cur.en_stack) = 2
  /\ \E j \in 1..Len(pairs) :
       /\ pairs[j].open_char = pairs[j].close_char
       /\ IsStraight(pairs[j].open_char)
       /\ pairs[j].open_pos >= abs_offset

\* a step that processes an ambiguous glyph while the buffer is full: the
\* two buffered glyphs become one Quote Pair, the older as its open side and
\* the newer as its close side, and the buffer then holds the new glyph only
DisplacementStep ==
  /\ AtGlyph
  /\ IsStraight(Head(queue).ch)
  /\ Len(cur.en_stack) = 2
  =>
    /\ cur' = [cur EXCEPT !.en_stack = << Glyph(Head(queue).pos, Head(queue).ch) >>]
    /\ meta_stack' = meta_stack
    /\ unpaired' = unpaired
    /\ Len(pairs') = Len(pairs) + 1
    /\ SubSeq(pairs', 1, Len(pairs)) = pairs
    /\ LET pair == pairs'[Len(pairs')]
       IN /\ pair.open_pos = cur.en_stack[1].pos
          /\ pair.open_char = cur.en_stack[1].ch
          /\ pair.close_pos = cur.en_stack[2].pos
          /\ pair.close_char = cur.en_stack[2].ch
          /\ pair.open_pos < pair.close_pos
          /\ pair.content = Slice(body_text, pair.open_pos + 1, pair.close_pos)

\* C20: an ambiguous glyph that arrives while the buffer is full makes the
\* two buffered glyphs one Quote Pair, the older glyph as open and the newer
\* as close, and the buffer afterwards holds exactly the newly arrived glyph.
C20_Displacement == [][DisplacementStep]_vars

\* C20 witness: a pair of a double and a single ambiguous glyph, which only a
\* displacement makes, with the displacing glyph alone in the buffer.
C20_Witness ==
  /\ pc = "queue"
  /\ Len(cur.en_stack) = 1
  /\ \E j \in 1..Len(pairs) :
       /\ IsStraight(pairs[j].open_char) /\ IsStraight(pairs[j].close_char)
       /\ pairs[j].open_char # pairs[j].close_char
       /\ pairs[j].close_pos < cur.en_stack[1].pos
       /\ \A i \in pairs[j].close_pos..cur.en_stack[1].pos : body_text[i + 1] # NL
       /\ cur.en_stack[1].pos = pairs[j].close_pos + 1

\* the closer of the kind of a distinct-role opener
CloserOf(ch) == IF ch = ZH_DQUOTE_OPEN THEN ZH_DQUOTE_CLOSE ELSE ZH_SQUOTE_CLOSE

\* the matching of a sequence of glyphs read as nested distinct-role quotes:
\* ok tells whether every glyph is a distinct-role one, every closer meets the
\* most recent pending opener and is of its kind, and no opener stays
\* pending; matched holds the <<open offset, close offset>> of each opener
Nesting(glyphs) ==
  LET RECURSIVE F(_, _, _)
      F(i, stack, matched) ==
        IF i > Len(glyphs) THEN [ok |-> stack = <<>>, matched |-> matched]
        ELSE IF IsKnownOpen(glyphs[i].ch) THEN F(i + 1, Append(stack, glyphs[i]), matched)
        ELSE IF /\ IsKnownClose(glyphs[i].ch)
                /\ stack # <<>>
                /\ glyphs[i].ch = CloserOf(stack[Len(stack)].ch)
             THEN F(i + 1, SubSeq(stack, 1, Len(stack) - 1),
                    matched \cup { << stack[Len(stack)].pos, glyphs[i].pos >> })
        ELSE [ok |-> FALSE, matched |-> matched]
  IN F(1, <<>>, {})

\* a step that processes a distinct-role opener inside an open level with an
\* empty buffer: the active frame is suspended and a new frame holds the
\* opener
SuspendStep ==
  AtGlyph /\ IsKnownOpen(Head(queue).ch) /\ cur.zh_slot.tag = "real" /\ cur.en_stack = <<>> =>
    /\ meta_stack' = Append(meta_stack, cur)
    /\ cur' = [zh_slot |-> SlotReal(Head(queue).pos, Head(queue).ch), en_stack |-> <<>>]
    /\ pairs' = pairs
    /\ unpaired' = unpaired

\* a step that processes the closer of the kind of the opener in the slot,
\* with an empty buffer: the two make a pair and the most recently suspended
\* frame is active again
RestoreStep ==
  /\ AtGlyph
  /\ cur.zh_slot.tag = "real"
  /\ cur.en_stack = <<>>
  /\ Head(queue).ch = CloserOf(cur.zh_slot.ch)
  =>
    /\ Len(pairs') = Len(pairs) + 1
    /\ SubSeq(pairs', 1, Len(pairs)) = pairs
    /\ pairs'[Len(pairs')].open_pos = cur.zh_slot.pos
    /\ pairs'[Len(pairs')].close_pos = Head(queue).pos
    /\ unpaired' = unpaired
    /\ IF meta_stack = <<>>
       THEN cur' = new_stackb /\ meta_stack' = <<>>
       ELSE /\ cur' = meta_stack[Len(meta_stack)]
            /\ meta_stack' = SubSeq(meta_stack, 1, Len(meta_stack) - 1)

\* C21: a paragraph whose quote glyphs are a properly nested, kind-matched
\* sequence of distinct-role openers and closers yields exactly one Quote
\* Pair per opener, each opener with the closer that balances it, and no
\* unpaired report; an opener inside an open level suspends the active frame
\* and the matching closer restores it.
C21_Nesting ==
  /\ [](QuotesChecked =>
          \A k \in 1..Len(paragraphs) :
            Nesting(ParagraphGlyphs(k)).ok =>
              /\ { << pairs[j].open_pos, pairs[j].close_pos >> : j \in PairsIn(k) }
                   = Nesting(ParagraphGlyphs(k)).matched
              /\ Cardinality(PairsIn(k)) = Cardinality(Nesting(ParagraphGlyphs(k)).matched)
              /\ UnpairedIn(k) = {})
  /\ [][SuspendStep /\ RestoreStep]_vars

\* C21 witness: a paragraph with a pair of one kind nested in a pair of the
\* other kind and nothing unpaired.
C21_Witness ==
  /\ pc = "done"
  /\ \E k \in 1..Len(paragraphs) :
       /\ Nesting(ParagraphGlyphs(k)).ok
       /\ UnpairedIn(k) = {}
       /\ \E j, m \in PairsIn(k) :
            /\ pairs[j].open_pos < pairs[m].open_pos
            /\ pairs[m].close_pos < pairs[j].close_pos
            /\ pairs[j].open_char # pairs[m].open_char

\* a step that processes a distinct-role closer while the slot holds a real
\* opener of the other kind and the buffer is empty: the closer and then the
\* opener are reported, no pair is made, and the level is closed
MismatchStep ==
  /\ AtGlyph
  /\ IsKnownClose(Head(queue).ch)
  /\ cur.zh_slot.tag = "real"
  /\ cur.en_stack = <<>>
  /\ Head(queue).ch # CloserOf(cur.zh_slot.ch)
  =>
    /\ pairs' = pairs
    /\ unpaired' = unpaired \o << ReportOf(Head(queue), FALSE),
                                  ReportOf(Glyph(cur.zh_slot.pos, cur.zh_slot.ch), TRUE) >>
    /\ IF meta_stack = <<>>
       THEN cur' = new_stackb /\ meta_stack' = <<>>
       ELSE /\ cur' = meta_stack[Len(meta_stack)]
            /\ meta_stack' = SubSeq(meta_stack, 1, Len(meta_stack) - 1)

\* C22: a distinct-role closer that arrives while the slot holds a real
\* opener of the other kind, the buffer being empty, has both the closer and
\* the opener reported as unpaired, makes no Quote Pair, and closes the
\* level: the most recently suspended frame becomes the active frame, or an
\* empty frame when none is suspended.
C22_KindMismatch == [][MismatchStep]_vars

\* C22 witness: a closer and an opener of different kinds reported together,
\* inside a pair that the restored frame completed afterwards.
C22_Witness ==
  /\ pc = "done"
  /\ \E u \in 1..(Len(unpaired) - 1), j \in 1..Len(pairs) :
       /\ ~unpaired[u].is_open /\ IsKnownClose(unpaired[u].char)
       /\ unpaired[u + 1].is_open /\ IsKnownOpen(unpaired[u + 1].char)
       /\ unpaired[u].char # CloserOf(unpaired[u + 1].char)
       /\ pairs[j].open_pos < unpaired[u + 1].pos
       /\ unpaired[u + 1].pos < unpaired[u].pos
       /\ unpaired[u].pos < pairs[j].close_pos

\* the reports a frame owes at the end of the paragraph: its buffered glyphs,
\* then its opener when the slot holds a real one
FrameReports(frame) ==
  ReportsOf(frame.en_stack)
    \o IF frame.zh_slot.tag = "real"
       THEN << ReportOf(Glyph(frame.zh_slot.pos, frame.zh_slot.ch), TRUE) >>
       ELSE <<>>

\* the reports the suspended frames owe, the most recently suspended first
StackReports(stack) ==
  LET RECURSIVE F(_)
      F(k) == IF k < 1 THEN <<>> ELSE FrameReports(stack[k]) \o F(k - 1)
  IN F(Len(stack))

\* the step at the end of a paragraph: every buffered glyph and every real
\* opener of the active frame and of the suspended frames is reported as
\* unclosed, and nothing else is
ParagraphEndStep ==
  pc = "queue" /\ queue = <<>> =>
    /\ pairs' = pairs
    /\ unpaired' = unpaired \o FrameReports(cur) \o StackReports(meta_stack)
    /\ \A u, v \in 1..Len(unpaired') : unpaired'[u].pos = unpaired'[v].pos => u = v

\* C23: when the glyphs of a paragraph are exhausted, every ambiguous glyph
\* still buffered and every real opener still pending, on the active frame
\* or on a suspended frame, is reported as unclosed exactly once; a
\* placeholder is never reported: every report names a glyph of the text.
C23_ParagraphEnd ==
  /\ [](\A u \in 1..Len(unpaired) :
          /\ unpaired[u].pos < Len(body_text)
          /\ body_text[unpaired[u].pos + 1] = unpaired[u].char
          /\ unpaired[u].char \in QUOTE_CHARS)
  /\ [][ParagraphEndStep]_vars

\* C23 witness: a paragraph ended with an opener on a suspended frame, an
\* opener on the active frame and two buffered glyphs, all four reported.
C23_Witness ==
  /\ pc = "done"
  /\ \E a, b, c, d \in 1..Len(unpaired) :
       /\ a < b /\ b < c /\ c < d
       /\ IsStraight(unpaired[a].char) /\ IsStraight(unpaired[b].char)
       /\ IsKnownOpen(unpaired[c].char) /\ IsKnownOpen(unpaired[d].char)
       /\ unpaired[d].pos < unpaired[c].pos
       /\ unpaired[c].pos < unpaired[a].pos
       /\ unpaired[a].line_no = unpaired[d].line_no

\* the bracket pairs of the lines check_body_line has been through, as
\* records of the line number and the pair
CheckedBracketPairs ==
  UNION { { [n |-> n, p |-> find_bracket_pairs(body_lines[n])[k]] :
              k \in 1..Len(find_bracket_pairs(body_lines[n])) } :
          n \in LinesChecked }

\* what check_brackets holds for the two sides of the pair p of line n when
\* narrow brackets are, or are not, expected: a side has an Issue exactly
\* when its glyph is not of the expected convention, and the Issue suggests
\* the glyph of that convention
SidesFlagged(n, p, narrow) ==
  LET expected_open == IF narrow THEN "(" ELSE "fl"
      expected_close == IF narrow THEN ")" ELSE "fr"
  IN /\ (IssuesOn(n, p.open_pos, p.open_ch) # {}) <=> (p.open_ch # expected_open)
     /\ (IssuesOn(n, p.close_pos, p.close_ch) # {}) <=> (p.close_ch # expected_close)
     /\ Cardinality(IssuesOn(n, p.open_pos, p.open_ch)) <= 1
     /\ Cardinality(IssuesOn(n, p.close_pos, p.close_ch)) <= 1
     /\ \A j \in IssuesOn(n, p.open_pos, p.open_ch) :
          all_issues[j].suggestion = expected_open /\ IsAutoFixable(all_issues[j])
     /\ \A j \in IssuesOn(n, p.close_pos, p.close_ch) :
          all_issues[j].suggestion = expected_close /\ IsAutoFixable(all_issues[j])

\* a character a narrow-bracket content may end with: a Latin letter, a
\* digit or a period
IsNarrowEnd(c) == IsEN(c) \/ IsDigit(c) \/ c = "."

\* C24 (as claimed): for a bracket pair whose trimmed content is not a year,
\* narrow brackets are expected exactly when the trimmed content both starts
\* and ends with a Latin letter, a digit or a period, wide brackets
\* otherwise; each side is flagged on its own when its glyph differs.
C24_ConventionAnyStart ==
  \A c \in CheckedBracketPairs :
    LET trimmed == Strip(c.p.content)
    IN ~IsYear(trimmed) =>
         SidesFlagged(c.n, c.p,
                      /\ trimmed # <<>>
                      /\ IsNarrowEnd(trimmed[1])
                      /\ IsNarrowEnd(trimmed[Len(trimmed)]))

\* C24 (amended): for a bracket pair whose trimmed content is not a year,
\* narrow brackets are expected exactly when the trimmed content starts with
\* a Latin letter and ends with a Latin letter, a digit or a period, wide
\* brackets otherwise, empty content included; each side is flagged on its
\* own when its glyph differs from the expected convention.
C24_ConventionLetterStart ==
  \A c \in CheckedBracketPairs :
    LET trimmed == Strip(c.p.content)
    IN ~IsYear(trimmed) =>
         SidesFlagged(c.n, c.p,
                      /\ trimmed # <<>>
                      /\ IsEN(trimmed[1])
                      /\ IsNarrowEnd(trimmed[Len(trimmed)]))

\* C24 witness: a checked pair with a narrow opener and a wide closer whose
\* content starts with a digit and ends with a Latin letter: wide brackets
\* are expected, the opener is flagged and the closer is not.
C24_Witness ==
  /\ pc = "done"
  /\ \E c \in CheckedBracketPairs :
       LET trimmed == Strip(c.p.content)
       IN /\ Len(trimmed) > 1
          /\ IsDigit(trimmed[1])
          /\ IsEN(trimmed[Len(trimmed)])
          /\ c.p.open_ch = "(" /\ c.p.close_ch = "fr"
          /\ IssuesOn(c.n, c.p.open_pos, "(") # {}
          /\ IssuesOn(c.n, c.p.close_pos, "fr") = {}

\* the line is primary-dominant: it has primary- or secondary-script letters
\* and at least half of them are primary-script
PrimaryDominant(line) ==
  /\ CountCJK(line) + CountEN(line) > 0
  /\ CountCJK(line) >= CountEN(line)

\* C25: for a bracket pair whose trimmed content is exactly a 4-digit year,
\* the expected brackets follow the dominant script of the whole line: wide
\* when the line is primary-dominant, narrow otherwise; each side is flagged
\* accordingly, whatever the content-based rule would say.
C25_BracketedYear ==
  \A c \in CheckedBracketPairs :
    IsYear(Strip(c.p.content)) =>
      SidesFlagged(c.n, c.p, ~PrimaryDominant(body_lines[c.n]))

\* C25 witness: a year in wide brackets on a line whose letters are Latin:
\* both wide brackets are flagged and narrow ones suggested, where the
\* content-based rule would expect wide brackets.
C25_Witness ==
  /\ pc = "done"
  /\ \E c \in CheckedBracketPairs :
       /\ IsYear(Strip(c.p.content))
       /\ CountEN(body_lines[c.n]) > 0
       /\ ~PrimaryDominant(body_lines[c.n])
       /\ c.p.open_ch = "fl" /\ c.p.close_ch = "fr"
       /\ \E j \in IssuesOn(c.n, c.p.open_pos, "fl") : all_issues[j].suggestion = "("
       /\ \E j \in IssuesOn(c.n, c.p.close_pos, "fr") : all_issues[j].suggestion = ")"

\* the glyphs of the quote check and of the bracket check
PairedGlyphs == QUOTE_CHARS \cup {"(", ")", "fl", "fr"}

\* the offset (0-based) the references region starts at: the start of the
\* line after the heading line
RefRegionStart == LineStart(text, RefsHeading(Split(text)) + 1)

\* C26: quote pairing and bracket matching run over the body only: in a
\* document with a references region no Issue on a quote or bracket glyph
\* belongs to the references section or to a line after the heading, every
\* quote replacement lies before the references region, and every quote and
\* bracket glyph of a reference line is the same in the patched text.
C26_BodyOnly ==
  RefsHeading(Split(text)) # 0 =>
    /\ \A j \in 1..Len(all_issues) :
         all_issues[j].char \in PairedGlyphs =>
           /\ all_issues[j].section = "body"
           /\ all_issues[j].line_no <= RefsHeading(Split(text))
    /\ \A r \in 1..Len(all_quote_replacements) :
         /\ all_quote_replacements[r].abs_pos < RefRegionStart
         /\ all_quote_replacements[r].line_no <= RefsHeading(Split(text))
    /\ pc = "done" =>
         /\ Len(fixed_text) = Len(text)
         /\ \A p \in (RefRegionStart + 1)..Len(text) :
              text[p] \in PairedGlyphs => fixed_text[p] = text[p]

\* C26 witness: a finished run on a document whose body has a replaced
\* quote and whose reference lines hold a quote glyph, a bracket glyph and a
\* comma that the reference check patched.
C26_Witness ==
  /\ pc = "done"
  /\ RefsHeading(Split(text)) # 0
  /\ all_quote_replacements # <<>>
  /\ \E p \in (RefRegionStart + 1)..Len(text) : text[p] \in QUOTE_CHARS
  /\ \E p \in (RefRegionStart + 1)..Len(text) : text[p] \in {"(", ")", "fl", "fr"}
  /\ \E p \in (RefRegionStart + 1)..Len(text) : fixed_text[p] # text[p]

\* how many times the results name the glyph at pos: as the open side of a
\* pair, as the close side of a pair, in an unpaired report
Uses(pos) ==
  Cardinality({ j \in 1..Len(pairs) : pairs[j].open_pos = pos })
    + Cardinality({ j \in 1..Len(pairs) : pairs[j].close_pos = pos })
    + Cardinality({ j \in 1..Len(unpaired) : unpaired[j].pos = pos })

\* how many times a frame holds the glyph at pos, as opener or in its buffer
HeldBy(frame, pos) ==
  (IF frame.zh_slot.tag = "real" /\ frame.zh_slot.pos = pos THEN 1 ELSE 0)
    + Cardinality({ k \in 1..Len(frame.en_stack) : frame.en_stack[k].pos = pos })

Held(pos) ==
  LET RECURSIVE F(_)
      F(k) == IF k < 1 THEN 0 ELSE HeldBy(meta_stack[k], pos) + F(k - 1)
  IN HeldBy(cur, pos) + F(Len(meta_stack))

\* the paragraph of the glyph at pos is finished; the glyph at pos has been
\* processed in the paragraph in progress
ParagraphDone(pos) ==
  \/ pc \in {"refs", "fix", "done"}
  \/ pc \in {"quotes", "queue"} /\ pos < abs_offset
GlyphProcessed(pos) ==
  /\ pc = "queue"
  /\ pos >= abs_offset
  /\ pos < abs_offset + Len(paragraphs[para])
  /\ \A k \in 1..Len(queue) : queue[k].pos # pos

\* C27: every quote glyph of a finished paragraph is named exactly once by
\* the results: as the open side of one pair, as the close side of one pair
\* or in one unpaired report. While a paragraph is in progress every glyph
\* processed so far is either named once by the results or held once by a
\* frame, a glyph not yet processed is named and held nowhere, and no offset
\* that is not a quote glyph is ever named.
C27_ExactlyOnce ==
  \A pos \in 0..(Len(body_text) - 1) :
    IF body_text[pos + 1] \notin QUOTE_CHARS THEN Uses(pos) = 0 /\ Held(pos) = 0
    ELSE IF ParagraphDone(pos) THEN Uses(pos) = 1 /\ Held(pos) = 0
    ELSE IF GlyphProcessed(pos) THEN Uses(pos) + Held(pos) = 1
    ELSE Uses(pos) = 0 /\ Held(pos) = 0

\* C27 witness: a finished run whose results hold a pair, a stray closer and
\* an unclosed opener, every quote glyph of the body being named once.
C27_Witness ==
  /\ pc = "done"
  /\ pairs # <<>>
  /\ \E u, v \in 1..Len(unpaired) : unpaired[u].is_open /\ ~unpaired[v].is_open
  /\ \A pos \in 0..(Len(body_text) - 1) :
       body_text[pos + 1] \in QUOTE_CHARS => Uses(pos) = 1

\* two pairs are disjoint; the pair a lies strictly inside the pair b
Disjoint(a, b) == a.close_pos < b.open_pos \/ b.close_pos < a.open_pos
StrictlyInside(a, b) == b.open_pos < a.open_pos /\ a.close_pos < b.close_pos

\* C28: any two Quote Pairs are either disjoint or one lies strictly inside
\* the other, and no quote glyph lies between the two glyphs of a Quote Pair
\* formed from ambiguous glyphs.
C28_NonCrossing ==
  /\ \A a, b \in 1..Len(pairs) :
       a # b =>
         \/ Disjoint(pairs[a], pairs[b])
         \/ StrictlyInside(pairs[a], pairs[b])
         \/ StrictlyInside(pairs[b], pairs[a])
  /\ \A a \in 1..Len(pairs) :
       IsStraight(pairs[a].open_char) \/ IsStraight(pairs[a].close_char) =>
         \A pos \in (pairs[a].open_pos + 1)..(pairs[a].close_pos - 1) :
           body_text[pos + 1] \notin QUOTE_CHARS

\* C28 witness: a pair of ambiguous glyphs strictly inside a pair of
\* distinct-role glyphs.
C28_Witness ==
  \E a, b \in 1..Len(pairs) :
    /\ StrictlyInside(pairs[a], pairs[b])
    /\ IsStraight(pairs[a].open_char)
    /\ IsKnownOpen(pairs[b].open_char)

\* a pair of two ambiguous glyphs of different kinds
IsMixedStraight(pair) ==
  /\ IsStraight(pair.open_char)
  /\ IsStraight(pair.close_char)
  /\ pair.open_char # pair.close_char

\* a step that adds a pair of ambiguous glyphs of different kinds is a
\* displacement: an ambiguous glyph is processed while the buffer is full,
\* the pair is made of the two buffered glyphs and the new glyph stays
MixedPairStep ==
  Len(pairs') > Len(pairs) /\ IsMixedStraight(pairs'[Len(pairs')]) =>
    /\ AtGlyph
    /\ IsStraight(Head(queue).ch)
    /\ Len(cur.en_stack) = 2
    /\ pairs' = Append(pairs, pairs'[Len(pairs')])
    /\ pairs'[Len(pairs')].open_pos = cur.en_stack[1].pos
    /\ pairs'[Len(pairs')].close_pos = cur.en_stack[2].pos
    /\ cur'.en_stack = << Glyph(Head(queue).pos, Head(queue).ch) >>

\* C29: no Quote Pair mixes an ambiguous glyph with a distinct-role glyph;
\* a Quote Pair of distinct-role glyphs has an opener and the closer of its
\* kind; a Quote Pair of ambiguous glyphs of different kinds arises only
\* when a third ambiguous glyph displaces a full buffer.
C29_GlyphConsistency ==
  /\ [](\A j \in 1..Len(pairs) :
          \/ IsStraight(pairs[j].open_char) /\ IsStraight(pairs[j].close_char)
          \/ /\ IsKnownOpen(pairs[j].open_char)
             /\ pairs[j].close_char = CloserOf(pairs[j].open_char))
  /\ [][MixedPairStep]_vars

\* C29 witness: a finished run with a pair of ambiguous glyphs of different
\* kinds and a pair of two glyphs of the same kind.
C29_Witness ==
  /\ pc = "done"
  /\ \E a, b \in 1..Len(pairs) :
       /\ IsMixedStraight(pairs[a])
       /\ pairs[b].open_char = pairs[b].close_char

\* C30 (as claimed): for every Quote Pair that is not inside brackets, that
\* is, whose opening offset is at bracket depth zero in its paragraph, the
\* context-driven and the content-driven strategy choose the same canonical
\* form; the two strategies differ only for pairs inside brackets.
C30_StrategyAgreement ==
  \A j \in 1..Len(pairs) :
    bracket_depth_at(body_text, pairs[j].open_pos) = 0 =>
      decide_correct_quote_form(pairs[j], "A") = decide_correct_quote_form(pairs[j], "B")

\* C31: after any prefix of a paragraph's glyphs, (a) when the slot of the
\* active frame is empty, its buffer is empty and no frame is suspended, and
\* (b) every suspended frame has an occupied slot, a real opener or the
\* placeholder, and an empty buffer.
C31_FrameInvariants ==
  /\ cur.zh_slot.tag = "None" => cur.en_stack = <<>> /\ meta_stack = <<>>
  /\ \A k \in 1..Len(meta_stack) :
       /\ meta_stack[k].zh_slot.tag \in {"real", "^"}
       /\ meta_stack[k].en_stack = <<>>

\* C31 witness: in the middle of a paragraph two frames are suspended, one
\* on the placeholder and one on a real opener, and the active frame holds
\* an opener and a buffered glyph.
C31_Witness ==
  /\ pc = "queue"
  /\ Len(meta_stack) > 1
  /\ \E j, k \in 1..Len(meta_stack) :
       meta_stack[j].zh_slot.tag = "^" /\ meta_stack[k].zh_slot.tag = "real"
  /\ cur.zh_slot.tag = "real"
  /\ cur.en_stack # <<>>

====
